---- MODULE Spec2Model ----
(***************************************************************************)
(* sqlmat: the execution-context-scoped transaction manager of             *)
(* sqlmat/db.py (LocalTransaction, TxFrame, FrameMap, _get_framemap) and   *)
(* the statement routing of sqlmat/stmt.py (Action.run), as a state        *)
(* machine over cooperative asyncio tasks.                                 *)
(*                                                                         *)
(* Collaborators (asyncpg Pool / Connection / Transaction) are modelled by *)
(* their contract at the call sites: acquire suspends until a connection   *)
(* is free; a transaction begun on a connection that already has one is a  *)
(* savepoint; Transaction.__aexit__ rolls back when handed an exception    *)
(* and commits otherwise; a begin, commit or rollback may raise (a         *)
(* connection error, or a CancelledError delivered at that await), and a   *)
(* transaction whose end raised is rolled back by the server.              *)
(***************************************************************************)
EXTENDS Integers, Sequences, FiniteSets, TLC

\* ------------------------------------------------------------- bounds
\* scopes entered in one run, over all tasks
MaxScopes == 2
\* connections of a pool
PoolSize == 2
\* connections of the small pool, pB
SmallPool == 1
\* operators and methods applied in building one Expr
MaxOps == 2
\* Table objects, and Query objects, made by the builders in one run
MaxObjects == 3

\* the task that runs first, and the task it spawns with create_task
Tasks == {1, 2}
Pools == {"pA", "pB"}
Keys == {"mike", "marry"}
Conns == Pools \X (1..PoolSize)

NoPool == "None"
NoConn == <<"None", 0>>
NoExc == "none"
BodyErr == "AbortTransaction"
DbErr == "DbError"

\* A stored value names the scope it was written in, <<task, scope number>>;
\* InitVal is a value written outside every scope.
InitVal == <<0, 0>>
NoWrite == <<-1, -1>>
EmptyLevel == [k \in Keys |-> NoWrite]

VARIABLES
    pools_default,  \* _pools['default']
    cv,             \* the ContextVar 'sqlmat_framemap' in each task's context (0: None)
    fmaps,          \* the FrameMap objects, by the task that allocated them
    ctl,            \* per task: the `async with local_transaction` blocks it is inside
    pc,             \* per task: where it is
    exc,            \* per task: the exception propagating in it
    cur,            \* per task: the locals of the __aenter__/__aexit__ call in progress
    holder,         \* per connection: the task it is leased to (0: in the pool)
    xacts,          \* per connection: its open transaction and savepoints
    committed,      \* the database's durable contents
    hist,           \* history: per task, the scopes it has entered
    spawnedIn,      \* history: per task, the scope its parent was in at create_task
    stmt,           \* per task: the statement (Action) it is running
    expr,           \* the Expr in hand (sqlmat/expr.py)
    sql,            \* what get_sql_str made of it: the text and the parameter list
    query,          \* the Query in hand (sqlmat/stmt.py)
    sent,           \* the statements the last Select.get_one() ran
    tables,         \* the Table objects made so far, in the order they were made
    queries,        \* the Query objects made so far, in the order they were made
    err             \* the exception the last call of a builder raised

vars == <<pools_default, cv, fmaps, ctl, pc, exc, cur, holder, xacts, committed,
          hist, spawnedIn, stmt, expr, sql, query, sent, tables, queries, err>>

\* the builders of statements: they touch no pool, frame or connection
exvars == <<expr, sql, query, sent, tables, queries, err>>

\* the objects of the builders
heapvars == <<tables, queries, err>>

txvars == <<pools_default, cv, fmaps, ctl, pc, exc, cur, holder, xacts, committed,
            hist, spawnedIn, stmt>>

\* ------------------------------------------------------------- TxFrame, FrameMap
NoProxy == [pool |-> NoPool, conn |-> NoConn]

TxFrame == [conn_proxy |-> NoProxy, conn |-> NoConn, transactions |-> <<>>]

NoFrameMap == [ctask |-> 0, entries |-> [p \in Pools |-> TxFrame]]

FrameMap(t) == [ctask |-> t, entries |-> [p \in Pools |-> TxFrame]]

\* mutant: the owner of the FrameMap is not compared with the running task
in_current_task_always(f, t) == TRUE

in_current_task(f, t) == fmaps[f].ctask = t

\* The FrameMap _get_framemap() hands to task t: the one in its context when
\* that one is its own, a fresh one otherwise.
\* mutant: only a missing FrameMap is replaced, an inherited one is kept
NeedsFresh_only_none(t) == cv[t] = 0

NeedsFresh(t) == cv[t] = 0 \/ ~in_current_task(cv[t], t)

FrameMapOf(t) == IF NeedsFresh(t) THEN t ELSE cv[t]

\* fmaps and cv after _get_framemap() in task t
FmapsAfterGet(t) == IF NeedsFresh(t) THEN [fmaps EXCEPT ![t] = FrameMap(t)] ELSE fmaps

CvAfterGet(t) == IF NeedsFresh(t) THEN [cv EXCEPT ![t] = t] ELSE cv

\* mutant: one frame for all the pools
get_frame_shared(fm, f, p) == fm[f].entries["pA"]

get_frame(fm, f, p) == fm[f].entries[p]

\* ------------------------------------------------------------- registry
ensure_pool(lp) == IF lp = NoPool THEN pools_default ELSE lp

\* ------------------------------------------------------------- database
\* xacts[c] is the stack of transaction levels open on connection c (the
\* transaction, then its savepoints); a level is [sid, w]: the scope that
\* began it and the rows written in it.
Depth(c) == Len(xacts[c])

Front(s) == SubSeq(s, 1, Len(s) - 1)

Last(s) == s[Len(s)]

\* what a statement on connection c reads for key k
RECURSIVE ViewAt(_, _, _)
ViewAt(c, k, i) ==
    IF i = 0 THEN committed[k]
    ELSE IF xacts[c][i].w[k] # NoWrite THEN xacts[c][i].w[k]
    ELSE ViewAt(c, k, i - 1)

View(c, k) == ViewAt(c, k, Depth(c))

Overlay(base, top) == [k \in Keys |-> IF top[k] # NoWrite THEN top[k] ELSE base[k]]

\* the writes of levels lvl..i of connection c, the later over the earlier
RECURSIVE Merged(_, _, _)
Merged(c, lvl, i) ==
    IF i < lvl THEN EmptyLevel
    ELSE Overlay(Merged(c, lvl, i - 1), xacts[c][i].w)

\* a row another connection has written and not yet committed is locked
Locked(c, k) ==
    \E c2 \in Conns \ {c} : \E i \in 1..Depth(c2) : xacts[c2][i].w[k] # NoWrite

\* conn.transaction().__aenter__(): BEGIN, or SAVEPOINT inside a transaction
XactsAfterBegin(c, sid) ==
    [xacts EXCEPT ![c] = Append(@, [sid |-> sid, w |-> EmptyLevel])]

\* ROLLBACK / ROLLBACK TO SAVEPOINT of the transaction handle tx
XactsAfterRollback(tx) ==
    IF tx.lvl > Depth(tx.conn) THEN xacts
    ELSE [xacts EXCEPT ![tx.conn] = SubSeq(@, 1, tx.lvl - 1)]

\* COMMIT / RELEASE SAVEPOINT of the transaction handle tx
XactsAfterCommit(tx) ==
    IF tx.lvl > Depth(tx.conn) THEN xacts
    ELSE IF tx.lvl = 1 THEN [xacts EXCEPT ![tx.conn] = <<>>]
    ELSE [xacts EXCEPT ![tx.conn] =
            Append(SubSeq(@, 1, tx.lvl - 2),
                   [sid |-> @[tx.lvl - 1].sid,
                    w |-> Overlay(@[tx.lvl - 1].w, Merged(tx.conn, tx.lvl, Depth(tx.conn)))])]

CommittedAfterCommit(tx) ==
    IF tx.lvl = 1 /\ tx.lvl <= Depth(tx.conn)
    THEN Overlay(committed, Merged(tx.conn, 1, Depth(tx.conn)))
    ELSE committed

\* tx.__aexit__(exc_type, exc, tb): the transaction is rolled back when the
\* scope hands it an exception, committed otherwise
\* mutant: the exception is not handed on, every exit commits
Rollsback_never(et) == FALSE

Rollsback(et) == et # NoExc

XactsAfterEnd(tx, et) ==
    IF Rollsback(et) THEN XactsAfterRollback(tx) ELSE XactsAfterCommit(tx)

CommittedAfterEnd(tx, et) ==
    IF Rollsback(et) THEN committed ELSE CommittedAfterCommit(tx)

\* ------------------------------------------------------------- pool
\* create_pool(max_size=...): the connections pool p may have open
max_size(p) == IF p = "pB" THEN SmallPool ELSE PoolSize

\* pool.acquire() hands out an idle connection of pool p: the first in its queue
IsNextFree(c, p) ==
    /\ c[1] = p
    /\ c[2] <= max_size(p)
    /\ holder[c] = 0
    /\ \A c2 \in Conns : c2[1] = p /\ holder[c2] = 0 => c[2] <= c2[2]

\* ------------------------------------------------------------- sqlmat/expr.py
\* An Expr is [op, val, kids]: val is the name of a field, the text of a safe
\* fragment or a literal; kids are the left and the right operand, and for
\* in / not in the left operand and the elements of the list. An operand that
\* is a plain Python value and no Expr is a node of op "raw".
Node(op, val, kids) == [op |-> op, val |-> val, kids |-> kids]

\* field(name)
field(name) == Node("field", name, <<>>)

\* safe(text)
safe(text) == Node("safe", text, <<>>)

\* Expr('value', v, None)
value(v) == Node("value", v, <<>>)

\* a Python value that is no Expr
raw(v) == Node("raw", v, <<>>)

None == raw("None")

NoExpr == Node("", "", <<>>)

\* Expr.parse(value)
parse(v) == IF v.op = "raw" THEN value(v.val) ELSE v

\* mutant: no operator counts as binary-like
is_binop_never(e) == FALSE

\* Expr.is_binop()
is_binop(e) == e.op \in {"+", "-", "*", "/", "^", "like", "ilike"}

\* wrap(name), for a name without a dot: an identifier is quoted, * is not
wrap(name) == IF name = "*" THEN name ELSE "\"" \o name \o "\""

\* mutant: every placeholder is $1
placeholder_one(params) == "$1"

\* f'${len(params)}'
placeholder(params) == "$" \o ToString(Len(params))

\* mutant: no parentheses are put
paren_none(text) == text

\* '({})'.format(text)
paren(text) == <<"(">> \o text \o <<")">>

\* for v in self.right: params.append(v); places.append('${}'.format(len(params)))
\* and ','.join(places)
RECURSIVE places(_, _, _)
places(vs, i, params) ==
    IF i > Len(vs) THEN [text |-> <<>>, params |-> params]
    ELSE LET ps == Append(params, vs[i].val)
             rest == places(vs, i + 1, ps)
         IN [text |-> (IF i > 1 THEN <<",">> ELSE <<>>) \o <<placeholder(ps)>> \o rest.text,
             params |-> rest.params]

\* mutant: a comparison with None is compiled as any other comparison
right_is_None_never(e) == FALSE

\* self.right is None
right_is_None(e) == e.kids[2] = None

\* Expr.get_sql_str(params): the text, as the sequence of its tokens, and the
\* parameter list after the call
RECURSIVE get_sql_str(_, _)
get_sql_str(self, params) ==
    IF self.op = "value"
    THEN LET ps == Append(params, self.val)
         IN [text |-> <<placeholder(ps)>>, params |-> ps]
    ELSE IF self.op = "field" THEN [text |-> <<wrap(self.val)>>, params |-> params]
    ELSE IF self.op = "safe" THEN [text |-> <<self.val>>, params |-> params]
    ELSE LET left == get_sql_str(self.kids[1], params)
         IN IF self.op = "neg" THEN [text |-> <<"-">> \o left.text, params |-> left.params]
            ELSE IF self.op = "not"
            THEN [text |-> <<"not">> \o paren(left.text), params |-> left.params]
            ELSE IF self.op \in {"in", "not in"}
            THEN LET ps == places(self.kids, 2, left.params)
                 IN [text |-> left.text \o (IF self.op = "in" THEN <<"in">> ELSE <<"not", "in">>)
                                \o paren(ps.text),
                     params |-> ps.params]
            ELSE IF self.op \in {"=", "<>"} /\ right_is_None(self)
            THEN [text |-> (IF is_binop(self.kids[1]) THEN paren(left.text) ELSE left.text)
                                \o (IF self.op = "=" THEN <<"is", "null">>
                                    ELSE <<"is", "not", "null">>),
                  params |-> left.params]
            ELSE LET right == parse(self.kids[2])
                     rs == get_sql_str(right, left.params)
                     left_stmt == IF is_binop(self) /\ is_binop(self.kids[1])
                                  THEN paren(left.text) ELSE left.text
                     right_stmt == IF is_binop(self) /\ is_binop(right)
                                   THEN paren(rs.text) ELSE rs.text
                 IN [text |-> left_stmt \o <<self.op>> \o right_stmt, params |-> rs.params]

NoSql == [text |-> <<>>, params |-> <<>>]

\* Query(table): no filter, offset, limit, ordering or grouping
Query(table) ==
    [table |-> table, expr |-> None, offset_num |-> None, limiting |-> None,
     ordering |-> <<>>, grouping |-> <<>>]

\* the operators and methods of Expr applied in e
RECURSIVE OpsIn(_)
RECURSIVE OpsInKids(_, _)
OpsIn(e) == IF e.kids = <<>> THEN 0 ELSE 1 + OpsInKids(e.kids, 1)

OpsInKids(ks, i) == IF i > Len(ks) THEN 0 ELSE OpsIn(ks[i]) + OpsInKids(ks, i + 1)

\* the Exprs a building starts from
Leaves == {field("c"), value("1")}

\* the Exprs an operator is given as its left operand
Fields == {field("a"), field("b")}

\* what an operator is given as its right operand: an Expr, or a Python value
Operands == {field("a"), raw("2")}

\* __eq__ __and__ __or__ __add__ __mul__
BinOps == {"=", "and", "or", "+", "*"}

\* the list handed to _in and not_in
Lists == {<<raw("1"), raw("2")>>}

\* the builders leave the compiled text behind
Built(e) ==
    /\ OpsIn(e) <= MaxOps
    /\ expr' = e
    /\ sql' = NoSql
    /\ UNCHANGED <<txvars, heapvars, query, sent>>

\* expr <op> other: Expr(op, self, other)
Expr_binop(op, other) == expr # NoExpr /\ Built(Node(op, "", <<expr, other>>))

\* other <op> expr, other an Expr
Expr_binop_right(op, other) == expr # NoExpr /\ Built(Node(op, "", <<other, expr>>))

\* -expr
Expr_neg == expr # NoExpr /\ Built(Node("neg", "", <<expr>>))

\* expr._not()
Expr_not == expr # NoExpr /\ Built(Node("not", "", <<expr>>))

\* expr.is_null(), expr == None
Expr_is_null == expr # NoExpr /\ Built(Node("=", "", <<expr, None>>))

\* expr.is_not_null(), expr != None
Expr_is_not_null == expr # NoExpr /\ Built(Node("<>", "", <<expr, None>>))

\* expr.like(pattern)
Expr_like == expr # NoExpr /\ Built(Node("like", "", <<expr, raw("x%")>>))

\* expr._in(*alist), expr.not_in(*alist)
Expr_in(op, alist) == expr # NoExpr /\ Built(Node(op, "", <<expr>> \o alist))

\* expr.get_sql_str([])
Expr_get_sql_str ==
    /\ expr # NoExpr
    /\ sql = NoSql
    /\ sql' = get_sql_str(expr, <<>>)
    /\ UNCHANGED <<txvars, heapvars, expr, query, sent>>

\* ------------------------------------------------------------- sqlmat/stmt.py: Join, Table
\* Join(other_table_name, field1, field2, join_type)
Join(other, field1, field2, join_type) ==
    [other_table_name |-> other, field1 |-> field1, field2 |-> field2,
     join_type |-> join_type]

\* Join.statement()
statement(j) ==
    <<j.join_type, "JOIN", wrap(j.other_table_name), "ON", wrap(j.field1), "=",
      wrap(j.field2)>>

\* table('testuser'): no joins, neither a connection nor a pool is pinned
Table == [name |-> "testuser", joins |-> <<>>, conn |-> NoConn, pool |-> NoPool]

\* self.using(conn_or_pool): a new Table of the same name and joins with the
\* connection or the pool pinned
using(self, x) ==
    IF x \in Conns THEN [Table EXCEPT !.name = self.name, !.joins = self.joins, !.conn = x]
    ELSE [Table EXCEPT !.name = self.name, !.joins = self.joins, !.pool = x]

\* mutant: the new Table keeps what is pinned on the receiver
joined_keeping(self, j) == [self EXCEPT !.joins = Append(self.joins, j)]

\* t = Table(self.name); t.joins = self.joins + [j]: what join, left_join and
\* right_join return
joined(self, j) == [Table EXCEPT !.name = self.name, !.joins = Append(self.joins, j)]

\* self.join(other, field1, field2)
join(self, other, field1, field2) == joined(self, Join(other, field1, field2, "INNER"))

\* self.left_join(other, field1, field2)
left_join(self, other, field1, field2) == joined(self, Join(other, field1, field2, "LEFT"))

\* self.right_join(other, field1, field2)
right_join(self, other, field1, field2) == joined(self, Join(other, field1, field2, "RIGHT"))

\* what using is handed: a connection, a pool
Pinnables == Conns \cup Pools

\* the join methods of Table
JoinTypes == {"INNER", "LEFT", "RIGHT"}

\* a builder of Tables has returned the new Table t
TableBuilt(t) ==
    /\ Len(tables) < MaxObjects
    /\ tables' = Append(tables, t)
    /\ UNCHANGED <<txvars, expr, sql, query, sent, queries, err>>

\* tables[i].using(x)
Table_using(i, x) == TableBuilt(using(tables[i], x))

\* tables[i].join('profile', 'id', 'uid'), .left_join(...), .right_join(...)
Table_join(i, join_type) ==
    TableBuilt(IF join_type = "INNER" THEN join(tables[i], "profile", "id", "uid")
               ELSE IF join_type = "LEFT" THEN left_join(tables[i], "profile", "id", "uid")
               ELSE right_join(tables[i], "profile", "id", "uid"))

\* ------------------------------------------------------------- sqlmat/stmt.py: Query, Select
\* mutant: the clone starts from an empty Query
clone_fresh(self, name, val) == [Query(self.table) EXCEPT ![name] = val]

\* self.clone(name=val): Query(self.table, **kw), kw the receiver's state
\* with the one change
clone(self, name, val) == [self EXCEPT ![name] = val]

\* [Expr('=', field(k), v) for k, v in kw.items()], kw as its items in order
RECURSIVE equalities(_, _)
equalities(kw, i) ==
    IF i > Len(kw) THEN <<>>
    ELSE <<Node("=", "", <<field(kw[i][1]), kw[i][2]>>)>> \o equalities(kw, i + 1)

\* list(args) + [Expr('=', field(k), v) for k, v in kw.items()]
predicates(args, kw) == args \o equalities(kw, 1)

\* the loop of filter, orFilter and exclude over qs from its element i on:
\* tq = Expr('and', tq, q) if tq is not None else q
RECURSIVE conj(_, _, _)
conj(tq, qs, i) ==
    IF i > Len(qs) THEN tq
    ELSE conj(IF tq # None THEN Node("and", "", <<tq, qs[i]>>) ELSE qs[i], qs, i + 1)

\* Query.filter(*args, **kw)
filter(self, args, kw) == clone(self, "expr", conj(self.expr, predicates(args, kw), 1))

\* mutant: without a filter the new predicates are ORed with true
orFilter_true(self, args, kw) ==
    clone(self, "expr",
          Node("or", "", <<IF self.expr = None THEN value("True") ELSE self.expr,
                           conj(None, predicates(args, kw), 1)>>))

\* Query.orFilter(*args, **kw)
orFilter(self, args, kw) ==
    LET tq == conj(None, predicates(args, kw), 1)
    IN IF self.expr = None THEN clone(self, "expr", tq)
       ELSE clone(self, "expr", Node("or", "", <<self.expr, tq>>))

\* mutant: exclude asserts nothing
has_predicate_always(tq) == TRUE

\* assert tq is not None
has_predicate(tq) == tq # None

\* Query.exclude(*args, **kw), past its assert
exclude(self, args, kw) ==
    LET tq == conj(None, predicates(args, kw), 1)
    IN IF self.expr # None
       THEN clone(self, "expr", Node("and", "", <<self.expr, Node("not", "", <<tq>>)>>))
       ELSE clone(self, "expr", Node("not", "", <<tq>>))

\* Query.offset(offset_num)
offset(self, offset_num) == clone(self, "offset_num", offset_num)

\* Query.limit(limiting)
limit(self, limiting) == clone(self, "limiting", limiting)

\* Query.order_by(*ordering), past its assert
order_by(self, ordering) == clone(self, "ordering", ordering)

\* Query.group_by(*grouping), past its assert
group_by(self, grouping) == clone(self, "grouping", grouping)

\* Query.get_condition_sql(params)
get_condition_sql(q, params) ==
    IF q.expr # None THEN get_sql_str(q.expr, params)
    ELSE get_sql_str(value("True"), params)

\* Select(query, fields, for_update)
Select(q, fields, for_update) ==
    [query |-> q, fields |-> fields, for_update |-> for_update]

\* ','.join([wrap(f) for f in names])
RECURSIVE wrapped_names(_, _)
wrapped_names(names, i) ==
    IF i > Len(names) THEN <<>>
    ELSE (IF i > 1 THEN <<",">> ELSE <<>>) \o <<wrap(names[i])>> \o wrapped_names(names, i + 1)

\* '\n'.join(lines)
RECURSIVE join_lines(_, _)
join_lines(lines, i) ==
    IF i > Len(lines) THEN <<>>
    ELSE (IF i > 1 THEN <<"\n">> ELSE <<>>) \o lines[i] \o join_lines(lines, i + 1)

\* [join.statement() for join in joins]
RECURSIVE statements(_, _)
statements(joins, i) ==
    IF i > Len(joins) THEN <<>> ELSE <<statement(joins[i])>> \o statements(joins, i + 1)

\* Select.get_sql(): the statement text and its parameter list
get_sql(self) ==
    LET q == self.query
        cond == get_condition_sql(q, <<>>)
        lines ==
            <<  <<"SELECT">> \o wrapped_names(self.fields, 1),
                <<"FROM", wrap(q.table.name)>> >>
            \o statements(q.table.joins, 1)
            \o (IF cond.text # <<>> THEN << <<"WHERE">> \o cond.text >> ELSE <<>>)
            \o (IF q.grouping # <<>>
                THEN << <<"GROUP BY">> \o wrapped_names(q.grouping, 1) >> ELSE <<>>)
            \o (IF q.ordering # <<>>
                THEN << <<"ORDER BY">> \o wrapped_names(q.ordering, 1) >> ELSE <<>>)
            \o (IF q.limiting # None THEN << <<"LIMIT", q.limiting.val>> >> ELSE <<>>)
            \o (IF q.offset_num # None THEN << <<"OFFSET", q.offset_num.val>> >> ELSE <<>>)
            \o (IF self.for_update = raw("False") THEN <<>>
                ELSE IF self.for_update = raw("skip locked")
                THEN << <<"FOR UPDATE SKIP LOCKED">> >>
                ELSE << <<"FOR UPDATE">> >>)
    IN [text |-> join_lines(lines, 1), params |-> cond.params]

\* mutant: the re-derived Select forgets the for-update mode
rederived_plain(self) == Select(limit(self.query, raw("1")), self.fields, raw("False"))

\* Select(self.query.limit(1), self.fields, self.for_update)
rederived(self) == Select(limit(self.query, raw("1")), self.fields, self.for_update)

\* Select.get_one(): the statements it runs, in order
RECURSIVE get_one(_)
get_one(self) ==
    IF self.query.limiting = None THEN get_one(rederived(self))
    ELSE <<get_sql(self)>>

\* the predicates handed to filter, orFilter and exclude
Preds ==
    {safe("p"), safe("q"), safe("r"),
     Node("or", "", <<safe("p"), safe("q")>>),
     Node("and", "", <<safe("p"), safe("q")>>)}

\* the arguments of limit
Limits == {raw("0"), raw("1")}

\* the fields of a select
FieldLists == {<<"*">>, <<"id", "name">>}

\* for_update: False, True, 'skip locked'
ForUpdates == {raw("False"), raw("True"), raw("skip locked")}

\* a builder returns a new Query, of which nothing was compiled or sent
QueryBuilt(q) ==
    /\ OpsIn(q.expr) <= MaxOps
    /\ query' = q
    /\ sql' = NoSql
    /\ sent' = <<>>
    /\ UNCHANGED <<txvars, heapvars, expr>>

\* query = query.filter(p)
Query_filter(p) == QueryBuilt(filter(query, <<p>>, <<>>))

\* query = query.orFilter(p)
Query_orFilter(p) == QueryBuilt(orFilter(query, <<p>>, <<>>))

\* query = query.exclude(p)
Query_exclude(p) == QueryBuilt(exclude(query, <<p>>, <<>>))

\* query = query.limit(n)
Query_limit(n) == query.limiting # n /\ QueryBuilt(limit(query, n))

\* query.get_condition_sql([])
Query_get_condition_sql ==
    /\ sql = NoSql
    /\ sql' = get_condition_sql(query, <<>>)
    /\ UNCHANGED <<txvars, heapvars, expr, query, sent>>

\* Select(query, fields, for_update).get_one()
Select_get_one(fields, for_update) ==
    /\ sent' = get_one(Select(query, fields, for_update))
    /\ UNCHANGED <<txvars, heapvars, expr, sql, query>>

\* ------------------------------------------------------------- sqlmat/stmt.py: Delete, Update, Insert
AssertionError == "AssertionError"

AttributeError == "AttributeError"

\* a statement: its class, its table, its Query (Update, Delete), its fields
\* (Insert) and its values (Update, Insert)
Statement(kind, table, q, fields, values) ==
    [kind |-> kind, table |-> table, query |-> q, fields |-> fields, values |-> values]

\* the keys of kw, in order
RECURSIVE keys(_, _)
keys(kw, i) == IF i > Len(kw) THEN <<>> ELSE <<kw[i][1]>> \o keys(kw, i + 1)

\* [Expr.parse(v) for k, v in kw.items()]
RECURSIVE parsed(_, _)
parsed(kw, i) == IF i > Len(kw) THEN <<>> ELSE <<parse(kw[i][2])>> \o parsed(kw, i + 1)

\* [Expr('=', field(k), Expr.parse(v)) for k, v in kw.items()]
RECURSIVE assignments(_, _)
assignments(kw, i) ==
    IF i > Len(kw) THEN <<>>
    ELSE <<Node("=", "", <<field(kw[i][1]), parse(kw[i][2])>>)>> \o assignments(kw, i + 1)

\* Delete(query)
Delete(q) == Statement("Delete", q.table, q, <<>>, <<>>)

\* Update(query, kw)
Update(q, kw) == Statement("Update", q.table, q, <<>>, assignments(kw, 1))

\* Insert(table, kw)
Insert(table, kw) == Statement("Insert", table, Query(table), keys(kw, 1), parsed(kw, 1))

\* get_value_sql(params): ','.join(expr.get_sql_str(params) for expr in values)
RECURSIVE get_value_sql(_, _, _)
get_value_sql(values, i, params) ==
    IF i > Len(values) THEN [text |-> <<>>, params |-> params]
    ELSE LET one == get_sql_str(values[i], params)
             rest == get_value_sql(values, i + 1, one.params)
         IN [text |-> (IF i > 1 THEN <<",">> ELSE <<>>) \o one.text \o rest.text,
             params |-> rest.params]

\* a call that raised e
Raised(e) == [err |-> e, text |-> <<>>, params |-> <<>>]

\* a call that returned the statement text and its parameter list
Returned(text, params) == [err |-> NoExc, text |-> text, params |-> params]

\* mutant: joins are not looked at
no_joins_always(table) == TRUE

\* assert not self.query.table.joins
no_joins(table) == table.joins = <<>>

\* Delete.get_sql()
Delete_get_sql(self) ==
    LET cond == get_condition_sql(self.query, <<>>)
    IN IF ~no_joins(self.query.table) THEN Raised(AssertionError)
       ELSE Returned(join_lines(<< <<"DELETE FROM", wrap(self.query.table.name)>>,
                                   <<"WHERE">> \o cond.text >>, 1),
                     cond.params)

\* Update.get_sql(): self.query.expr.get_sql_str raises AttributeError when
\* the Query has no filter
Update_get_sql(self) ==
    LET set_stmt == get_value_sql(self.values, 1, <<>>)
    IN IF self.query.expr = None THEN Raised(AttributeError)
       ELSE LET cond == get_sql_str(self.query.expr, set_stmt.params)
            IN IF ~no_joins(self.query.table) THEN Raised(AssertionError)
               ELSE Returned(join_lines(<< <<"UPDATE", wrap(self.query.table.name)>>,
                                           <<"SET">> \o set_stmt.text,
                                           <<"WHERE">> \o cond.text,
                                           <<"RETURNING *">> >>, 1),
                             cond.params)

\* Insert.get_sql()
Insert_get_sql(self) ==
    LET value_sql == get_value_sql(self.values, 1, <<>>)
    IN Returned(join_lines(<< <<"INSERT INTO", wrap(self.table.name), "(">>
                                  \o wrapped_names(self.fields, 1) \o <<")">>,
                              <<"VALUES", "(">> \o value_sql.text \o <<")">>,
                              <<"RETURNING *">> >>, 1),
                value_sql.params)

\* self.get_sql() of a Delete, an Update, an Insert
Action_get_sql(self) ==
    IF self.kind = "Delete" THEN Delete_get_sql(self)
    ELSE IF self.kind = "Update" THEN Update_get_sql(self)
    ELSE Insert_get_sql(self)

\* the positional predicates handed to one call of filter, orFilter, exclude
ArgLists ==
    {<<>>, <<safe("p")>>, <<safe("p"), safe("q")>>,
     <<Node("or", "", <<safe("p"), safe("q")>>)>>}

\* the keyword equalities handed to one call
KwLists == {<<>>, << <<"k", raw("1")>> >>}

\* the arguments of offset
Offsets == {raw("0"), raw("5")}

\* the arguments of order_by and of group_by
NameLists == {<<>>, <<"id">>}

\* a mutator has returned the new Query q
QueryMade(q) ==
    /\ Len(queries) < MaxObjects
    /\ OpsIn(q.expr) <= MaxOps
    /\ queries' = Append(queries, q)
    /\ err' = NoExc
    /\ UNCHANGED <<txvars, expr, sql, query, sent, tables>>

\* a mutator has raised e and returned nothing
QueryFailed(e) ==
    /\ err' = e
    /\ UNCHANGED <<txvars, expr, sql, query, sent, tables, queries>>

\* queries[i].filter(*args, **kw)
Call_filter(i, args, kw) == QueryMade(filter(queries[i], args, kw))

\* queries[i].orFilter(*args, **kw)
Call_orFilter(i, args, kw) == QueryMade(orFilter(queries[i], args, kw))

\* queries[i].exclude(*args, **kw)
Call_exclude(i, args, kw) ==
    IF has_predicate(conj(None, predicates(args, kw), 1))
    THEN QueryMade(exclude(queries[i], args, kw))
    ELSE QueryFailed(AssertionError)

\* table('testuser').exclude(*args, **kw): Query(self).exclude(*args, **kw)
Table_exclude(args, kw) ==
    IF has_predicate(conj(None, predicates(args, kw), 1))
    THEN QueryMade(exclude(Query(Table), args, kw))
    ELSE QueryFailed(AssertionError)

\* queries[i].offset(n)
Call_offset(i, n) == QueryMade(offset(queries[i], n))

\* queries[i].limit(n)
Call_limit(i, n) == QueryMade(limit(queries[i], n))

\* queries[i].order_by(*names): assert len(ordering) > 0
Call_order_by(i, names) ==
    IF Len(names) > 0 THEN QueryMade(order_by(queries[i], names))
    ELSE QueryFailed(AssertionError)

\* queries[i].group_by(*names): assert len(grouping) > 0
Call_group_by(i, names) ==
    IF Len(names) > 0 THEN QueryMade(group_by(queries[i], names))
    ELSE QueryFailed(AssertionError)

\* ------------------------------------------------------------- state
NoStmt == [conn |-> NoConn, leased |-> FALSE]

Idle == [lt |-> NoPool, pool |-> NoPool, et |-> NoExc, popped |-> FALSE]

\* the pools, frames, tasks and connections before the first task runs
InitTx ==
    /\ pools_default = "pA"
    /\ cv = [t \in Tasks |-> 0]
    /\ fmaps = [t \in Tasks |-> NoFrameMap]
    /\ ctl = [t \in Tasks |-> <<>>]
    /\ pc = [t \in Tasks |-> IF t = 1 THEN "body" ELSE "unborn"]
    /\ exc = [t \in Tasks |-> NoExc]
    /\ cur = [t \in Tasks |-> Idle]
    /\ holder = [c \in Conns |-> 0]
    /\ xacts = [c \in Conns |-> <<>>]
    /\ committed = [k \in Keys |-> InitVal]
    /\ hist = [t \in Tasks |-> <<>>]
    /\ spawnedIn = [t \in Tasks |-> InitVal]
    /\ stmt = [t \in Tasks |-> NoStmt]

Init ==
    /\ InitTx
    /\ expr = NoExpr
    /\ sql = NoSql
    /\ query = Query(Table)
    /\ sent = <<>>
    /\ tables = <<Table>>
    /\ queries = <<Query(Table)>>
    /\ err = NoExc

SetFrame(fm, f, p, fr) == [fm EXCEPT ![f].entries[p] = fr]

\* the frame the current call of task t works on
CurFrame(t) == get_frame(fmaps, FrameMapOf(t), cur[t].pool)

\* the scope number of the innermost block of task t entered against pool p
RECURSIVE Encloser(_, _, _)
Encloser(t, p, i) ==
    IF i = 0 THEN 0
    ELSE IF ctl[t][i].rpool = p THEN ctl[t][i].sid[2]
    ELSE Encloser(t, p, i - 1)

ScopesEntered == Len(hist[1]) + Len(hist[2])

SetFate(t, n, st) == [hist EXCEPT ![t][n].st = st]

\* ------------------------------------------------------------- task spawning
\* asyncio.create_task: the child starts with a copy of the parent's context
create_task(t, u) ==
    /\ pc[t] = "body"
    /\ pc[u] = "unborn"
    /\ \A v \in Tasks : v < u => pc[v] # "unborn"
    /\ cv' = [cv EXCEPT ![u] = cv[t]]
    /\ pc' = [pc EXCEPT ![u] = "body"]
    /\ spawnedIn' = [spawnedIn EXCEPT ![u] =
                        IF ctl[t] = <<>> THEN InitVal ELSE Last(ctl[t]).sid]
    /\ UNCHANGED <<exvars, pools_default, fmaps, ctl, exc, cur, holder, xacts, committed, hist, stmt>>

\* ------------------------------------------------------------- LocalTransaction.__aenter__
\* mutant: every entry acquires a connection, nested or not
needs_conn_always(frame) == TRUE

\* if frame.conn is None
needs_conn(frame) == frame.conn = NoConn

\* LocalTransaction(lp) is built and entered, past ensure_pool(): the frame
\* of the pool is looked up, and a frame with no connection starts an acquire.
enter(t, lp, pool) ==
    /\ LET f == FrameMapOf(t)
           fm == FmapsAfterGet(t)
           frame == get_frame(fm, f, pool)
       IN /\ cv' = CvAfterGet(t)
          /\ cur' = [cur EXCEPT ![t] = [lt |-> lp, pool |-> pool, et |-> NoExc,
                                        popped |-> FALSE]]
          /\ IF needs_conn(frame)
             THEN /\ fmaps' = SetFrame(fm, f, pool,
                                [frame EXCEPT !.conn_proxy = [pool |-> pool, conn |-> NoConn]])
                  /\ pc' = [pc EXCEPT ![t] = "acquire"]
             ELSE /\ fmaps' = fm
                  /\ pc' = [pc EXCEPT ![t] = "begin"]
    /\ UNCHANGED <<exvars, ctl, exc, holder, xacts, committed, hist, spawnedIn, stmt>>

\* __aenter__ with the pool found at once: the scope's own pool, or the one
\* registered as default
aenter_start(t, lp) ==
    /\ pc[t] = "body"
    /\ ScopesEntered < MaxScopes
    /\ ensure_pool(lp) # NoPool
    /\ enter(t, lp, ensure_pool(lp))
    /\ UNCHANGED pools_default

\* frame.conn = await frame.conn_proxy.__aenter__(): suspends until a connection is free
aenter_acquire(t) ==
    /\ pc[t] = "acquire"
    /\ \E c \in Conns :
        /\ IsNextFree(c, cur[t].pool)
        /\ holder' = [holder EXCEPT ![c] = t]
        /\ fmaps' = SetFrame(fmaps, FrameMapOf(t), cur[t].pool,
                        [CurFrame(t) EXCEPT !.conn_proxy.conn = c, !.conn = c])
    /\ pc' = [pc EXCEPT ![t] = "begin"]
    /\ UNCHANGED <<exvars, pools_default, cv, ctl, exc, cur, xacts, committed, hist, spawnedIn, stmt>>

\* tx = frame.conn.transaction(); await tx.__aenter__(); transactions.append(tx); return frame.conn
aenter_begin(t) ==
    /\ pc[t] = "begin"
    /\ CurFrame(t).conn # NoConn
    /\ LET frame == CurFrame(t)
           c == frame.conn
           sid == <<t, Len(hist[t]) + 1>>
           tx == [conn |-> c, lvl |-> Depth(c) + 1]
       IN /\ xacts' = XactsAfterBegin(c, sid)
          /\ fmaps' = SetFrame(fmaps, FrameMapOf(t), cur[t].pool,
                        [frame EXCEPT !.transactions = Append(@, tx)])
          /\ ctl' = [ctl EXCEPT ![t] =
                        Append(@, [lt |-> cur[t].lt, rpool |-> cur[t].pool,
                                   conn |-> c, sid |-> sid])]
          /\ hist' = [hist EXCEPT ![t] =
                        Append(@, [pool |-> cur[t].pool,
                                   parent |-> Encloser(t, cur[t].pool, Len(ctl[t])),
                                   st |-> "open", wrote |-> FALSE])]
    /\ pc' = [pc EXCEPT ![t] = "body"]
    /\ cur' = [cur EXCEPT ![t] = Idle]
    /\ UNCHANGED <<exvars, pools_default, cv, exc, holder, committed, spawnedIn, stmt>>

\* the begin raises (the server's error, a cancellation, or the attribute
\* error of a frame.conn that is None): __aenter__ leaves by the exception,
\* nothing is appended
aenter_begin_raises(t) ==
    /\ pc[t] = "begin"
    /\ pc' = [pc EXCEPT ![t] = "raising"]
    /\ exc' = [exc EXCEPT ![t] = DbErr]
    /\ cur' = [cur EXCEPT ![t] = Idle]
    /\ UNCHANGED <<exvars, pools_default, cv, fmaps, ctl, holder, xacts, committed, hist, spawnedIn, stmt>>

\* ------------------------------------------------------------- LocalTransaction.__aexit__
\* the innermost `async with` block of task t is left: normally from its
\* body, or by the exception propagating in the task
CanExit(t) == pc[t] \in {"body", "raising"} /\ ctl[t] # <<>>

ExitArg(t) == IF pc[t] = "raising" THEN exc[t] ELSE NoExc

\* pool = ensure_pool(); frame = get_frame(pool); tx = transactions.pop();
\* await tx.__aexit__(exc_type, exc, tb)
aexit_end(t) ==
    /\ CanExit(t)
    /\ LET lt == Last(ctl[t]).lt
           pool == ensure_pool(lt)
           f == FrameMapOf(t)
           fm == FmapsAfterGet(t)
           frame == get_frame(fm, f, pool)
           et == ExitArg(t)
       IN /\ frame.transactions # <<>>
          /\ fmaps' = SetFrame(fm, f, pool, [frame EXCEPT !.transactions = Front(@)])
          /\ xacts' = XactsAfterEnd(Last(frame.transactions), et)
          /\ committed' = CommittedAfterEnd(Last(frame.transactions), et)
          /\ cv' = CvAfterGet(t)
          /\ cur' = [cur EXCEPT ![t] = [lt |-> lt, pool |-> pool, et |-> et,
                                        popped |-> TRUE]]
          /\ hist' = SetFate(t, Last(ctl[t]).sid[2], IF et = NoExc THEN "ok" ELSE "err")
    /\ pc' = [pc EXCEPT ![t] = "release"]
    /\ UNCHANGED <<exvars, pools_default, ctl, exc, holder, spawnedIn, stmt>>

\* the commit or rollback raises: the exception leaves __aexit__ at line 179,
\* past the release of lines 184-188
aexit_end_raises(t) ==
    /\ CanExit(t)
    /\ LET lt == Last(ctl[t]).lt
           pool == ensure_pool(lt)
           f == FrameMapOf(t)
           fm == FmapsAfterGet(t)
           frame == get_frame(fm, f, pool)
       IN /\ frame.transactions # <<>>
          /\ fmaps' = SetFrame(fm, f, pool, [frame EXCEPT !.transactions = Front(@)])
          /\ xacts' = XactsAfterRollback(Last(frame.transactions))
          /\ cv' = CvAfterGet(t)
    /\ ctl' = [ctl EXCEPT ![t] = Front(@)]
    /\ hist' = SetFate(t, Last(ctl[t]).sid[2], "err")
    /\ pc' = [pc EXCEPT ![t] = "raising"]
    /\ exc' = [exc EXCEPT ![t] = DbErr]
    /\ UNCHANGED <<exvars, pools_default, cur, holder, committed, spawnedIn, stmt>>

\* transactions.pop() on an empty list: the IndexError is logged and dropped
aexit_underflow(t) ==
    /\ CanExit(t)
    /\ LET lt == Last(ctl[t]).lt
           pool == ensure_pool(lt)
           f == FrameMapOf(t)
           fm == FmapsAfterGet(t)
           frame == get_frame(fm, f, pool)
       IN /\ frame.transactions = <<>>
          /\ fmaps' = fm
          /\ cv' = CvAfterGet(t)
          /\ cur' = [cur EXCEPT ![t] = [lt |-> lt, pool |-> pool, et |-> ExitArg(t),
                                        popped |-> FALSE]]
    /\ pc' = [pc EXCEPT ![t] = "release"]
    /\ UNCHANGED <<exvars, pools_default, ctl, exc, holder, xacts, committed, hist, spawnedIn, stmt>>

\* whether lines 184-185 find a connection guard to release
MustRelease(frame) == frame.transactions = <<>> /\ frame.conn_proxy # NoProxy

\* __aexit__ returns None: the exception it was handed goes on propagating
Propagates(et) == et # NoExc

\* if not frame.transactions: if frame.conn_proxy: release, clear; then
\* the exception, if any, is logged and __aexit__ returns
aexit_release(t) ==
    /\ pc[t] = "release"
    /\ LET frame == CurFrame(t)
           c == frame.conn_proxy.conn
       IN IF MustRelease(frame)
          THEN /\ holder' = [x \in Conns |-> IF x = c THEN 0 ELSE holder[x]]
               /\ xacts' = [x \in Conns |-> IF x = c THEN <<>> ELSE xacts[x]]
               /\ fmaps' = SetFrame(fmaps, FrameMapOf(t), cur[t].pool,
                               [frame EXCEPT !.conn_proxy = NoProxy, !.conn = NoConn])
          ELSE UNCHANGED <<holder, xacts, fmaps>>
    /\ ctl' = [ctl EXCEPT ![t] = Front(@)]
    /\ pc' = [pc EXCEPT ![t] = IF Propagates(cur[t].et) THEN "raising" ELSE "body"]
    /\ exc' = [exc EXCEPT ![t] = IF Propagates(cur[t].et) THEN cur[t].et ELSE NoExc]
    /\ cur' = [cur EXCEPT ![t] = Idle]
    /\ UNCHANGED <<exvars, pools_default, cv, committed, hist, spawnedIn, stmt>>

\* ------------------------------------------------------------- statements
\* Table.get_pool(): the table's pool, or the default one
get_pool(tp) == IF tp = NoPool THEN pools_default ELSE tp

\* conn.fetchrow of a statement that writes row k, on connection c by task t: inside a
\* transaction the row is written in its innermost level, outside it is
\* committed at once
run_on_conn(c, t, k) ==
    /\ ~Locked(c, k)
    /\ IF Depth(c) > 0
       THEN LET sid == xacts[c][Depth(c)].sid
            IN /\ xacts' = [xacts EXCEPT ![c][Depth(c)].w[k] = sid]
               /\ hist' = [hist EXCEPT ![sid[1]][sid[2]].wrote = TRUE]
               /\ UNCHANGED committed
       ELSE /\ committed' = [committed EXCEPT ![k] = InitVal]
            /\ UNCHANGED <<xacts, hist>>

\* mutant: the scope's connection is not looked up, a statement always leases
get_conn_none(t, pool) == NoConn

\* LocalTransaction.get_conn(pool): the connection of the task's frame for
\* the pool, None when it has no scope open on it
get_conn(t, pool) == get_frame(FmapsAfterGet(t), FrameMapOf(t), pool).conn

\* mutant: the connection pinned on the table is not looked at
pinned_none(table) == FALSE

\* if table.conn
pinned(table) == table.conn # NoConn

\* Action.run() on a pool: on the connection of the task's scope on the
\* pool, the statement is the one await of run_on_conn; else the task enters
\* `async with pool.acquire()` (it is suspended while no connection is idle)
\* and goes on in Action_fetch.
run_on_pool(t, pool, k) ==
    LET conn == get_conn(t, pool)
    IN /\ fmaps' = FmapsAfterGet(t)
       /\ cv' = CvAfterGet(t)
       /\ IF conn # NoConn
          THEN /\ run_on_conn(conn, t, k)
               /\ pc' = [pc EXCEPT ![t] = "body"]
               /\ UNCHANGED <<holder, stmt>>
          ELSE \E c \in Conns :
                /\ IsNextFree(c, pool)
                /\ holder' = [holder EXCEPT ![c] = t]
                /\ stmt' = [stmt EXCEPT ![t] = [conn |-> c, leased |-> TRUE]]
                /\ pc' = [pc EXCEPT ![t] = "stmt"]
                /\ UNCHANGED <<xacts, committed, hist>>

\* Action.run() past get_sql(): on the connection pinned on the table, else
\* on the table's pool, found at once (the table's own, or the one
\* registered as default)
route(t, table, k) ==
    /\ pc[t] = "body"
    /\ IF pinned(table)
       THEN /\ run_on_conn(table.conn, t, k)
            /\ UNCHANGED <<fmaps, cv, holder, pc, stmt>>
       ELSE /\ get_pool(table.pool) # NoPool
            /\ run_on_pool(t, get_pool(table.pool), k)

\* Action.run() of a statement that writes row k of the table
Action_run(t, table, k) ==
    /\ route(t, table, k)
    /\ UNCHANGED <<exvars, pools_default, ctl, exc, cur, spawnedIn>>

\* leaving `async with pool.acquire() as conn`
HolderAfterStmt(t) ==
    IF stmt[t].leased THEN [holder EXCEPT ![stmt[t].conn] = 0] ELSE holder

\* on the leased connection run_on_conn returns the row k the statement has
\* updated; the connection is released and Action.run returns
Action_fetch(t, k) ==
    /\ pc[t] = "stmt"
    /\ run_on_conn(stmt[t].conn, t, k)
    /\ holder' = HolderAfterStmt(t)
    /\ pc' = [pc EXCEPT ![t] = "body"]
    /\ stmt' = [stmt EXCEPT ![t] = NoStmt]
    /\ UNCHANGED <<exvars, pools_default, cv, fmaps, ctl, exc, cur, spawnedIn>>

\* on the leased connection run_on_conn raises (the server's error, a
\* cancellation); the connection is released and Action.run leaves by the
\* exception
Action_fetch_raises(t) ==
    /\ pc[t] = "stmt"
    /\ holder' = HolderAfterStmt(t)
    /\ pc' = [pc EXCEPT ![t] = "raising"]
    /\ exc' = [exc EXCEPT ![t] = BodyErr]
    /\ stmt' = [stmt EXCEPT ![t] = NoStmt]
    /\ UNCHANGED <<exvars, pools_default, cv, fmaps, ctl, cur, xacts, committed, hist, spawnedIn>>

\* ------------------------------------------------------------- running a built statement
\* the call raises e in task t before anything else is done
raises(t, e) ==
    /\ pc[t] = "body"
    /\ pc' = [pc EXCEPT ![t] = "raising"]
    /\ exc' = [exc EXCEPT ![t] = e]
    /\ UNCHANGED <<pools_default, cv, fmaps, ctl, cur, holder, xacts, committed, hist,
                   spawnedIn, stmt, exvars>>

\* self.run() of the statement self, which writes row k: stmt, params =
\* self.get_sql(), and then the routing of Action.run
Action_run_built(t, self, k) ==
    IF Action_get_sql(self).err # NoExc THEN raises(t, Action_get_sql(self).err)
    ELSE /\ route(t, self.table, k)
         /\ sent' = <<[text |-> Action_get_sql(self).text,
                       params |-> Action_get_sql(self).params]>>
         /\ UNCHANGED <<pools_default, ctl, exc, cur, spawnedIn, expr, sql, query, heapvars>>

\* await query.update(**kw): assert kw; Update(self, kw).run()
Query_update(t, kw, k) ==
    IF kw = <<>> THEN raises(t, AssertionError)
    ELSE Action_run_built(t, Update(query, kw), k)

\* await query.table.update(**kw): Query(self).update(**kw)
Table_update(t, kw, k) ==
    IF kw = <<>> THEN raises(t, AssertionError)
    ELSE Action_run_built(t, Update(Query(query.table), kw), k)

\* await query.delete(): Delete(self).run()
Query_delete(t, k) == Action_run_built(t, Delete(query), k)

\* await query.table.delete(): Query(self).delete()
Table_delete(t, k) == Action_run_built(t, Delete(Query(query.table)), k)

\* await query.table.insert(**kw): assert kw; Insert(self, kw).run()
Table_insert(t, kw, k) ==
    IF kw = <<>> THEN raises(t, AssertionError)
    ELSE Action_run_built(t, Insert(query.table, kw), k)

\* await Insert(query.table, kw).run()
Insert_run(t, kw, k) == Action_run_built(t, Insert(query.table, kw), k)

\* Insert(query.table, kw).get_sql()
Call_Insert_get_sql(kw) ==
    /\ sql' = [text |-> Insert_get_sql(Insert(query.table, kw)).text,
               params |-> Insert_get_sql(Insert(query.table, kw)).params]
    /\ UNCHANGED <<txvars, heapvars, expr, query, sent>>

\* Action.run_iter(): the same routing; the cursor is made on the pinned or
\* the scope's connection, or inside `async with pool.acquire() as conn`
run_iter(t, table) ==
    /\ pc[t] = "body"
    /\ IF pinned(table)
       THEN /\ stmt' = [stmt EXCEPT ![t] = [conn |-> table.conn, leased |-> FALSE]]
            /\ pc' = [pc EXCEPT ![t] = "iter"]
            /\ UNCHANGED <<fmaps, cv, holder>>
       ELSE LET pool == get_pool(table.pool)
                conn == get_conn(t, pool)
            IN /\ fmaps' = FmapsAfterGet(t)
               /\ cv' = CvAfterGet(t)
               /\ IF conn # NoConn
                  THEN /\ stmt' = [stmt EXCEPT ![t] = [conn |-> conn, leased |-> FALSE]]
                       /\ pc' = [pc EXCEPT ![t] = "iter"]
                       /\ UNCHANGED holder
                  ELSE \E c \in Conns :
                        /\ IsNextFree(c, pool)
                        /\ holder' = [holder EXCEPT ![c] = t]
                        /\ stmt' = [stmt EXCEPT ![t] = [conn |-> c, leased |-> TRUE]]
                        /\ pc' = [pc EXCEPT ![t] = "cursor"]
    /\ UNCHANGED <<exvars, pools_default, ctl, exc, cur, xacts, committed, hist, spawnedIn>>

\* `return self._run_on_conn_iter(conn, stmt, params)` inside the
\* `async with pool.acquire() as conn`: the block is left, the cursor factory
\* goes to get_iter
run_iter_return(t) ==
    /\ pc[t] = "cursor"
    /\ holder' = HolderAfterStmt(t)
    /\ pc' = [pc EXCEPT ![t] = "iter"]
    /\ UNCHANGED <<exvars, pools_default, cv, fmaps, ctl, exc, cur, xacts, committed, hist,
                   spawnedIn, stmt>>

\* get_iter's `async for r in await self.run_iter(): yield r` fetches the rows
\* through the cursor; a cursor is iterated inside a transaction of its
\* connection
get_iter(t) ==
    /\ pc[t] = "iter"
    /\ Depth(stmt[t].conn) > 0
    /\ pc' = [pc EXCEPT ![t] = "body"]
    /\ stmt' = [stmt EXCEPT ![t] = NoStmt]
    /\ UNCHANGED <<exvars, pools_default, cv, fmaps, ctl, exc, cur, holder, xacts, committed,
                   hist, spawnedIn>>

\* the iteration raises
get_iter_raises(t) ==
    /\ pc[t] = "iter"
    /\ pc' = [pc EXCEPT ![t] = "raising"]
    /\ exc' = [exc EXCEPT ![t] = BodyErr]
    /\ stmt' = [stmt EXCEPT ![t] = NoStmt]
    /\ UNCHANGED <<exvars, pools_default, cv, fmaps, ctl, cur, holder, xacts, committed, hist,
                   spawnedIn>>

\* ------------------------------------------------------------- the code around the scopes
\* the body of a scope raises: AbortTransaction, a statement's error, or a
\* CancelledError delivered at an await of the body
body_raises(t) ==
    /\ pc[t] = "body"
    /\ ctl[t] # <<>>
    /\ pc' = [pc EXCEPT ![t] = "raising"]
    /\ exc' = [exc EXCEPT ![t] = BodyErr]
    /\ UNCHANGED <<exvars, pools_default, cv, fmaps, ctl, cur, holder, xacts, committed, hist, spawnedIn, stmt>>

\* a try/except around a scope catches the exception
except_clause(t) ==
    /\ pc[t] = "raising"
    /\ pc' = [pc EXCEPT ![t] = "body"]
    /\ exc' = [exc EXCEPT ![t] = NoExc]
    /\ UNCHANGED <<exvars, pools_default, cv, fmaps, ctl, cur, holder, xacts, committed, hist, spawnedIn, stmt>>

\* the task's coroutine returns, or ends by the exception
task_done(t) ==
    /\ pc[t] \in {"body", "raising"}
    /\ ctl[t] = <<>>
    /\ pc' = [pc EXCEPT ![t] = "done"]
    /\ UNCHANGED <<exvars, pools_default, cv, fmaps, ctl, exc, cur, holder, xacts, committed, hist, spawnedIn, stmt>>

\* set_default_pool(pool)
set_default_pool(p) ==
    /\ pools_default # p
    /\ pools_default' = p
    /\ UNCHANGED <<exvars, cv, fmaps, ctl, pc, exc, cur, holder, xacts, committed, hist, spawnedIn, stmt>>

\* ------------------------------------------------------------- sqlmat/db.py: find_pool, get_default_pool
KeyError == "KeyError"
Exception == "Exception"

\* the callers of find_pool('default'): LocalTransaction.ensure_pool() in
\* __aenter__, and Table.get_pool() in Action.run()
Callers == {"enter", "run"}

\* await create_pool(...): the Pool object made for task t's call
create_pool(t) == IF t = 1 THEN "pA" ELSE "pB"

\* find_pool('default') with no pool registered under the name: with no
\* configuration found it raises KeyError, else it is suspended in
\* `await create_pool(...)`
find_pool_miss(t, caller, cfg) ==
    /\ pc[t] = "body"
    /\ pools_default = NoPool
    /\ caller = "enter" => ScopesEntered < MaxScopes
    /\ IF cfg
       THEN /\ pc' = [pc EXCEPT ![t] = IF caller = "enter" THEN "create_enter"
                                                            ELSE "create_run"]
            /\ UNCHANGED exc
       ELSE /\ pc' = [pc EXCEPT ![t] = "raising"]
            /\ exc' = [exc EXCEPT ![t] = KeyError]
    /\ UNCHANGED <<exvars, pools_default, cv, fmaps, ctl, cur, holder, xacts, committed,
                   hist, spawnedIn, stmt>>

\* create_pool returns in ensure_pool(): _pools[name] = pool; return pool;
\* and __aenter__ goes on with that pool
find_pool_enter(t) ==
    /\ pc[t] = "create_enter"
    /\ pools_default' = create_pool(t)
    /\ enter(t, NoPool, create_pool(t))

\* create_pool returns in Table.get_pool(): _pools[name] = pool; return pool
find_pool_run(t) ==
    /\ pc[t] = "create_run"
    /\ pools_default' = create_pool(t)
    /\ cur' = [cur EXCEPT ![t] = [lt |-> NoPool, pool |-> create_pool(t), et |-> NoExc,
                                  popped |-> FALSE]]
    /\ pc' = [pc EXCEPT ![t] = "found"]
    /\ UNCHANGED <<exvars, cv, fmaps, ctl, exc, holder, xacts, committed, hist,
                   spawnedIn, stmt>>

\* Action.run() goes on with the pool get_pool() returned
Action_run_found(t, k) ==
    /\ pc[t] = "found"
    /\ run_on_pool(t, cur[t].pool, k)
    /\ cur' = [cur EXCEPT ![t] = Idle]
    /\ UNCHANGED <<exvars, pools_default, ctl, exc, spawnedIn>>

\* get_default_pool(): the registered pool, or Exception("no default pool set")
get_default_pool(t) ==
    /\ pc[t] = "body"
    /\ IF pools_default = NoPool
       THEN /\ pc' = [pc EXCEPT ![t] = "raising"]
            /\ exc' = [exc EXCEPT ![t] = Exception]
       ELSE UNCHANGED <<pc, exc>>
    /\ UNCHANGED <<exvars, pools_default, cv, fmaps, ctl, cur, holder, xacts, committed,
                   hist, spawnedIn, stmt>>

\* ------------------------------------------------------------- specifications
\* one step of task t in entering, leaving or raising in its scopes, which
\* are given a pool from LP
ScopeStep(t, LP) ==
    \/ \E lp \in LP : aenter_start(t, lp)
    \/ aenter_acquire(t)
    \/ aenter_begin(t)
    \/ aenter_begin_raises(t)
    \/ aexit_end(t)
    \/ aexit_end_raises(t)
    \/ aexit_release(t)
    \/ body_raises(t)
    \/ except_clause(t)
    \/ task_done(t)

\* one step of task t, which also runs statements wherever it is, on tables
\* given a pool from LP
TaskStep(t, LP) ==
    \/ ScopeStep(t, LP)
    \/ \E tp \in LP, k \in Keys :
            Action_run(t, IF tp = NoPool THEN Table ELSE using(Table, tp), k)
    \/ \E k \in Keys : Action_fetch(t, k)
    \/ Action_fetch_raises(t)

Next ==
    \E t \in Tasks :
        \/ \E u \in Tasks : create_task(t, u)
        \/ ScopeStep(t, {NoPool})
        \/ ctl[t] # <<>> /\ \E k \in Keys : Action_run(t, Table, k)

\* the default pool is registered before the tasks run and stays as it is;
\* scopes and tables use it (local_transaction(), table(name)), and the
\* tasks run their statements inside their scopes
Spec == Init /\ [][Next]_vars

NextReg ==
    \/ TaskStep(1, {NoPool})
    \/ aexit_underflow(1)
    \/ \E p \in Pools : set_default_pool(p)

\* one task, and the default pool may be registered again at any time
SpecReg == Init /\ [][NextReg]_vars

\* set_default_pool(pB) before the tasks run: the default pool is the small one
InitSmall ==
    /\ pools_default = "pB"
    /\ cv = [t \in Tasks |-> 0]
    /\ fmaps = [t \in Tasks |-> NoFrameMap]
    /\ ctl = [t \in Tasks |-> <<>>]
    /\ pc = [t \in Tasks |-> IF t = 1 THEN "body" ELSE "unborn"]
    /\ exc = [t \in Tasks |-> NoExc]
    /\ cur = [t \in Tasks |-> Idle]
    /\ holder = [c \in Conns |-> 0]
    /\ xacts = [c \in Conns |-> <<>>]
    /\ committed = [k \in Keys |-> InitVal]
    /\ hist = [t \in Tasks |-> <<>>]
    /\ spawnedIn = [t \in Tasks |-> InitVal]
    /\ stmt = [t \in Tasks |-> NoStmt]
    /\ expr = NoExpr
    /\ sql = NoSql
    /\ query = Query(Table)
    /\ sent = <<>>
    /\ tables = <<Table>>
    /\ queries = <<Query(Table)>>
    /\ err = NoExc

\* the tasks of Spec contending for the connections of the small pool
NextSmall ==
    \E t \in Tasks :
        \/ \E u \in Tasks : create_task(t, u)
        \/ ScopeStep(t, {NoPool})
        \/ ctl[t] # <<>> /\ \E k \in Keys : Action_run(t, Table, k)

SpecSmall == InitSmall /\ [][NextSmall]_vars

\* no pool is registered when the tasks start
InitCfg ==
    /\ pools_default = NoPool
    /\ cv = [t \in Tasks |-> 0]
    /\ fmaps = [t \in Tasks |-> NoFrameMap]
    /\ ctl = [t \in Tasks |-> <<>>]
    /\ pc = [t \in Tasks |-> IF t = 1 THEN "body" ELSE "unborn"]
    /\ exc = [t \in Tasks |-> NoExc]
    /\ cur = [t \in Tasks |-> Idle]
    /\ holder = [c \in Conns |-> 0]
    /\ xacts = [c \in Conns |-> <<>>]
    /\ committed = [k \in Keys |-> InitVal]
    /\ hist = [t \in Tasks |-> <<>>]
    /\ spawnedIn = [t \in Tasks |-> InitVal]
    /\ stmt = [t \in Tasks |-> NoStmt]
    /\ expr = NoExpr
    /\ sql = NoSql
    /\ query = Query(Table)
    /\ sent = <<>>
    /\ tables = <<Table>>
    /\ queries = <<Query(Table)>>
    /\ err = NoExc

\* two tasks whose scopes and tables name no pool, with nothing registered
\* beforehand: find_pool('default') looks for the configuration
NextCfg ==
    \E t \in Tasks :
        \/ \E u \in Tasks : create_task(t, u)
        \/ \E caller \in Callers, cfg \in BOOLEAN : find_pool_miss(t, caller, cfg)
        \/ find_pool_enter(t)
        \/ find_pool_run(t)
        \/ \E k \in Keys : Action_run_found(t, k)
        \/ get_default_pool(t)
        \/ TaskStep(t, {NoPool})
        \/ aexit_underflow(t)

SpecCfg == InitCfg /\ [][NextCfg]_vars

\* table.using(c), c the connection an enclosing `async with ... as c` gave
NextPools ==
    \/ TaskStep(1, Pools \cup {NoPool})
    \/ \E i \in 1..Len(ctl[1]), k \in Keys : Action_run(1, using(Table, ctl[1][i].conn), k)
    \/ \E table \in {Table} \cup {using(Table, x) : x \in Pools} : run_iter(1, table)
    \/ \E i \in 1..Len(ctl[1]) : run_iter(1, using(Table, ctl[1][i].conn))
    \/ run_iter_return(1)
    \/ get_iter(1)
    \/ get_iter_raises(1)

\* one task whose scopes and tables name either pool or none; the registry
\* stays as it is
SpecPools == Init /\ [][NextPools]_vars

\* an Expr is built from a field or a value and compiled
InitExpr ==
    /\ InitTx
    /\ expr \in Leaves
    /\ sql = NoSql
    /\ query = Query(Table)
    /\ sent = <<>>
    /\ tables = <<Table>>
    /\ queries = <<Query(Table)>>
    /\ err = NoExc

NextExpr ==
    \/ \E op \in BinOps, other \in Operands : Expr_binop(op, other)
    \/ \E op \in BinOps, other \in Fields : Expr_binop_right(op, other)
    \/ Expr_is_null
    \/ Expr_is_not_null
    \/ Expr_like
    \/ Expr_neg
    \/ Expr_not
    \/ \E op \in {"in", "not in"}, alist \in Lists : Expr_in(op, alist)
    \/ Expr_get_sql_str

SpecExpr == InitExpr /\ [][NextExpr]_vars

\* one Query built step by step, compiled, and read with get_one
NextQuery ==
    \/ \E p \in Preds : Query_filter(p) \/ Query_orFilter(p) \/ Query_exclude(p)
    \/ \E n \in Limits : Query_limit(n)
    \/ Query_get_condition_sql
    \/ \E f \in FieldLists : \E fu \in ForUpdates : Select_get_one(f, fu)

SpecQuery == Init /\ [][NextQuery]_vars

\* Tables derived from table('testuser') and from one another
NextTables ==
    \/ \E i \in 1..Len(tables), x \in Pinnables : Table_using(i, x)
    \/ \E i \in 1..Len(tables), join_type \in JoinTypes : Table_join(i, join_type)

SpecTables == Init /\ [][NextTables]_vars

\* a Query on table('testuser') or on a join of it
InitStmt ==
    /\ InitTx
    /\ expr = NoExpr
    /\ sql = NoSql
    /\ query \in {Query(Table), Query(join(Table, "profile", "id", "uid"))}
    /\ sent = <<>>
    /\ tables = <<Table>>
    /\ queries = <<Query(Table)>>
    /\ err = NoExc

\* task 1, outside every scope, filters the Query and runs updates, deletes
\* and inserts built from it
NextStmt ==
    \/ \E p \in Preds : Query_filter(p) \/ Query_orFilter(p) \/ Query_exclude(p)
    \/ \E kw \in KwLists, k \in Keys : Query_update(1, kw, k)
    \/ \E kw \in KwLists, k \in Keys : Table_update(1, kw, k)
    \/ \E k \in Keys : Query_delete(1, k)
    \/ \E k \in Keys : Table_delete(1, k)
    \/ \E kw \in KwLists, k \in Keys : Table_insert(1, kw, k)
    \/ \E kw \in KwLists, k \in Keys : Insert_run(1, kw, k)
    \/ \E kw \in KwLists : Call_Insert_get_sql(kw)
    \/ \E k \in Keys : Action_fetch(1, k)
    \/ Action_fetch_raises(1)
    \/ except_clause(1)

SpecStmt == InitStmt /\ [][NextStmt]_vars

\* Queries derived from Query(table('testuser')) and from one another
NextMutators ==
    \/ \E i \in 1..Len(queries), args \in ArgLists, kw \in KwLists : Call_filter(i, args, kw)
    \/ \E i \in 1..Len(queries), args \in ArgLists, kw \in KwLists : Call_orFilter(i, args, kw)
    \/ \E i \in 1..Len(queries), args \in ArgLists, kw \in KwLists : Call_exclude(i, args, kw)
    \/ \E args \in ArgLists, kw \in KwLists : Table_exclude(args, kw)
    \/ \E i \in 1..Len(queries), n \in Offsets : Call_offset(i, n)
    \/ \E i \in 1..Len(queries), n \in Limits : Call_limit(i, n)
    \/ \E i \in 1..Len(queries), names \in NameLists : Call_order_by(i, names)
    \/ \E i \in 1..Len(queries), names \in NameLists : Call_group_by(i, names)

SpecMutators == Init /\ [][NextMutators]_vars

\* ------------------------------------------------------------- what the properties speak of
\* the frame of task t for pool p, in the FrameMap the task allocated
FrameOf(t, p) == fmaps[t].entries[p]

\* task t is inside a call of __aenter__ or __aexit__
InCall(t) == pc[t] \in {"acquire", "begin", "release"}

ScopeNos(t) == 1..Len(hist[t])

\* a value written in scope n of task t is in the database or in a transaction
InCommitted(v) == \E k \in Keys : committed[k] = v

InLevel(v) == \E c \in Conns : \E i \in 1..Depth(c) : \E k \in Keys : xacts[c][i].w[k] = v

\* what became of scope n of task t: a scope that exited normally inside
\* another scope of the same task and pool shares the fate of that scope
RECURSIVE Fate(_, _)
Fate(t, n) ==
    IF hist[t][n].st = "ok" /\ hist[t][n].parent # 0
    THEN Fate(t, hist[t][n].parent)
    ELSE hist[t][n].st

\* block i of task t is open: the task is not in the __aexit__ that leaves it
StillOpen(t, i) == ~(pc[t] = "release" /\ i = Len(ctl[t]))

\* the innermost block of task t is left in this step
LeavesBlock(t) == ctl[t] # <<>> /\ ctl'[t] = Front(ctl[t])

\* the exception handed to the __aexit__ in which LeavesBlock(t) happens
ExcIn(t) == IF pc[t] = "release" THEN cur[t].et ELSE ExitArg(t)

\* ------------------------------------------------------------- C1
\* C1: within one task, the blocks entered against the same pool all got the
\* same connection from __aenter__, Action.run sends the task's statements for
\* that pool to that connection, and a row written in an inner scope that has
\* exited normally is in a transaction of that connection, not yet in the
\* database, while the outer scope is open.
C1_NestedScopesShareConnection ==
    \A t \in Tasks :
        /\ \A i, j \in 1..Len(ctl[t]) :
              ctl[t][i].rpool = ctl[t][j].rpool => ctl[t][i].conn = ctl[t][j].conn
        /\ \A i \in 1..Len(ctl[t]) :
              pc[t] = "body" => get_conn(t, ctl[t][i].rpool) = ctl[t][i].conn
        /\ \A i \in 1..Len(ctl[t]) : \A n \in ScopeNos(t) :
              /\ StillOpen(t, i)
              /\ hist[t][n].st = "ok"
              /\ hist[t][n].parent = ctl[t][i].sid[2]
              => /\ ~InCommitted(<<t, n>>)
                 /\ \A c \in Conns : \A l \in 1..Depth(c) : \A k \in Keys :
                       xacts[c][l].w[k] = <<t, n>> => c = ctl[t][i].conn

\* the outer scope of task 1 is open, its inner scope has exited normally, and
\* the task reads the inner scope's write on the outer scope's connection
C1_Witness ==
    /\ pc[1] = "body"
    /\ Len(ctl[1]) = 1
    /\ Len(hist[1]) = 2
    /\ hist[1][2].st = "ok"
    /\ hist[1][2].parent = 1
    /\ View(get_conn(1, ctl[1][1].rpool), "marry") = <<1, 2>>
    /\ committed["marry"] = InitVal

\* ------------------------------------------------------------- C2
\* C2: a task that has called _get_framemap works on a FrameMap of its own;
\* the connections of the frames of a task are leased to that task, so the
\* open scopes of two tasks never share a connection; and the frames of a
\* task's FrameMap change only in steps of that task.
C2_FramesOfOwnTask ==
    \A t \in Tasks :
        /\ (ctl[t] # <<>> \/ InCall(t)) => cv[t] = t /\ fmaps[cv[t]].ctask = t
        /\ \A p \in Pools :
              FrameOf(t, p).conn # NoConn => holder[FrameOf(t, p).conn] = t
        /\ \A u \in Tasks \ {t} : \A i \in 1..Len(ctl[t]) : \A j \in 1..Len(ctl[u]) :
              ctl[t][i].conn # ctl[u][j].conn

C2_ForeignFramesUntouched ==
    \A t \in Tasks :
        fmaps[t].ctask # 0 /\ fmaps'[t].entries # fmaps[t].entries
        => <<pc[t], ctl[t], cur[t]>>' # <<pc[t], ctl[t], cur[t]>>

C2_ChildNeverSeesParentFrame ==
    [](C2_FramesOfOwnTask) /\ [][C2_ForeignFramesUntouched]_vars

\* task 2 was spawned inside the open scope of task 1 and has a scope of its
\* own open on the same pool
C2_Witness ==
    /\ spawnedIn[2] = <<1, 1>>
    /\ Len(ctl[1]) = 1
    /\ Len(ctl[2]) = 1
    /\ ctl[1][1].rpool = ctl[2][1].rpool
    /\ cv[1] = 1
    /\ cv[2] = 2

\* ------------------------------------------------------------- C3
\* C3: outside __aenter__ and __aexit__, a frame has a connection exactly when
\* its transaction stack is not empty.
C3_ConnIffTransactions ==
    \A t \in Tasks : \A p \in Pools :
        ~InCall(t) =>
            (FrameOf(t, p).conn = NoConn <=> FrameOf(t, p).transactions = <<>>)

\* ------------------------------------------------------------- C4
\* C4: a connection goes back to its pool only in the __aexit__ that popped
\* the last transaction of the frame, after that transaction was ended, and
\* the frame's conn and conn_proxy are then cleared; and every exit that
\* leaves the frame's stack empty has released the connection, while an exit
\* that leaves transactions on it has released nothing.
C4_Step ==
    \A t \in Tasks :
        /\ \A c \in Conns :
              holder[c] = t /\ holder'[c] = 0
              => /\ pc[t] = "release"
                 /\ cur[t].popped
                 /\ Depth(c) = 0
                 /\ fmaps'[t].entries[c[1]].conn = NoConn
                 /\ fmaps'[t].entries[c[1]].conn_proxy = NoProxy
        /\ LeavesBlock(t)
           => \A p \in Pools : \A c \in Conns :
                 p = Last(ctl[t]).rpool /\ c = Last(ctl[t]).conn
                 => IF fmaps'[t].entries[p].transactions = <<>>
                    THEN holder'[c] = 0
                    ELSE holder'[c] = t

C4_ReleasedExactlyOnce == [][C4_Step]_vars

\* ------------------------------------------------------------- C5
\* C5: once a task that has entered scopes has finished, no connection is
\* still leased to it.
C5_NoLeaseAfterTaskEnd ==
    \A t \in Tasks :
        pc[t] = "done" /\ hist[t] # <<>> => \A c \in Conns : holder[c] # t

\* ------------------------------------------------------------- C6
\* C6: what was written in a scope that was exited by an exception is neither
\* in the database nor in any transaction; and a normal exit commits: of the
\* outermost scope, by making what its connection reads the contents of the
\* database, of a nested scope, by keeping its writes in the enclosing
\* transaction.
C6_RolledBackIsGone ==
    \A t \in Tasks : \A n \in ScopeNos(t) :
        hist[t][n].st = "err" => ~InCommitted(<<t, n>>) /\ ~InLevel(<<t, n>>)

C6_NormalExitCommits ==
    \A t \in Tasks :
        pc[t] = "body" /\ ctl[t] # <<>> /\ pc'[t] = "release"
        => \A c \in Conns :
              c = Last(ctl[t]).conn
              => IF hist[t][Last(ctl[t]).sid[2]].parent = 0
                 THEN /\ \A k \in Keys : committed'[k] = View(c, k)
                      /\ xacts'[c] = <<>>
                 ELSE /\ \A k \in Keys : View(c, k)' = View(c, k)
                      /\ Len(xacts'[c]) = Len(xacts[c]) - 1
                      /\ committed' = committed

C6_ErrorExitRollsBack == [](C6_RolledBackIsGone) /\ [][C6_NormalExitCommits]_vars

\* task 1 has committed a write in its first scope and has left its second
\* scope, in which it wrote too, by an exception
C6_Witness ==
    /\ Len(hist[1]) = 2
    /\ hist[1][1] = [pool |-> "pA", parent |-> 0, st |-> "ok", wrote |-> TRUE]
    /\ hist[1][2] = [pool |-> "pA", parent |-> 0, st |-> "err", wrote |-> TRUE]
    /\ committed["mike"] = <<1, 1>>
    /\ ctl[1] = <<>>
    /\ pc[1] = "raising"
    /\ exc[1] = BodyErr

\* ------------------------------------------------------------- C7
\* C7: what was written in a nested scope that exited normally is gone from
\* the database and from every transaction once the enclosing scope has been
\* exited by an error, and is not in the database while the enclosing scope
\* is open.
C7_NestedFollowsOuter ==
    \A t \in Tasks : \A n \in ScopeNos(t) :
        hist[t][n].st = "ok" /\ hist[t][n].parent # 0
        => /\ Fate(t, n) = "err" => ~InCommitted(<<t, n>>) /\ ~InLevel(<<t, n>>)
           /\ Fate(t, n) = "open" => ~InCommitted(<<t, n>>)

\* both scopes of task 1 wrote, the inner one exited normally, the outer one
\* by an exception
C7_Witness ==
    /\ Len(hist[1]) = 2
    /\ hist[1][1] = [pool |-> "pA", parent |-> 0, st |-> "err", wrote |-> TRUE]
    /\ hist[1][2] = [pool |-> "pA", parent |-> 1, st |-> "ok", wrote |-> TRUE]
    /\ ctl[1] = <<>>
    /\ pc[1] = "raising"
    /\ exc[1] = BodyErr

\* ------------------------------------------------------------- C8
\* C8: what a task spawned inside a scope of its parent wrote in a scope of
\* its own that exited normally is in no transaction any more (it is durable:
\* no rollback can reach it), and an exit by an exception changes neither the
\* database nor the transactions of other connections.
C8_ChildCommitIsDurable ==
    \A u \in Tasks :
        spawnedIn[u] # InitVal
        => \A n \in ScopeNos(u) :
              hist[u][n].st = "ok" /\ hist[u][n].parent = 0 => ~InLevel(<<u, n>>)

C8_RollbackIsLocal ==
    \A t \in Tasks :
        pc[t] = "raising" /\ (LeavesBlock(t) \/ pc'[t] = "release")
        => /\ committed' = committed
           /\ \A c \in Conns \ {Last(ctl[t]).conn} : xacts'[c] = xacts[c]

C8_ChildCommitSurvivesParentRollback ==
    [](C8_ChildCommitIsDurable) /\ [][C8_RollbackIsLocal]_vars

\* task 2, spawned inside the scope of task 1, has committed its write of
\* marry; task 1 wrote mike and left its scope by an exception
C8_Witness ==
    /\ spawnedIn[2] = <<1, 1>>
    /\ hist[1] = <<[pool |-> "pA", parent |-> 0, st |-> "err", wrote |-> TRUE]>>
    /\ hist[2] = <<[pool |-> "pA", parent |-> 0, st |-> "ok", wrote |-> TRUE]>>
    /\ committed["marry"] = <<2, 1>>
    /\ committed["mike"] = InitVal
    /\ ctl[1] = <<>>
    /\ ctl[2] = <<>>
    /\ pc[1] = "raising"
    /\ exc[1] = BodyErr

\* ------------------------------------------------------------- C9
\* after the __aexit__ in which task t leaves its innermost block: the scope's
\* transaction level is gone, and a frame left with no transaction has given
\* its connection back
CleanedUp(t) ==
    \A p \in Pools : \A c \in Conns :
        p = Last(ctl[t]).rpool /\ c = Last(ctl[t]).conn
        => IF fmaps'[t].entries[p].transactions = <<>>
           THEN holder'[c] = 0
           ELSE Len(xacts'[c]) = Len(fmaps'[t].entries[p].transactions)

\* C9: a block left with an exception handed to __aexit__ leaves
\* the task raising that same exception, with the rollback and the release
\* done.
C9_SameExceptionStep ==
    \A t \in Tasks :
        LeavesBlock(t) /\ ExcIn(t) # NoExc
        => pc'[t] = "raising" /\ exc'[t] = ExcIn(t) /\ CleanedUp(t)

C9_ExceptionUnchanged == [][C9_SameExceptionStep]_vars

\* ------------------------------------------------------------- C10
\* C10: the __aexit__ whose pop found the stack empty releases no connection,
\* ends no transaction, raises nothing of its own and leaves the frame with
\* no connection and no transaction.
C10_UnderflowStep ==
    \A t \in Tasks :
        pc[t] = "release" /\ ~cur[t].popped /\ pc'[t] # "release"
        => /\ holder' = holder
           /\ xacts' = xacts
           /\ exc'[t] = cur[t].et
           /\ get_frame(fmaps', FrameMapOf(t), cur[t].pool).conn = NoConn
           /\ get_frame(fmaps', FrameMapOf(t), cur[t].pool).transactions = <<>>

C10_UnderflowIsSwallowed == [][C10_UnderflowStep]_vars

\* ------------------------------------------------------------- C11
\* the pool of the scope whose __aenter__ or __aexit__ task t is running in
\* this step
StepPool(t) ==
    IF pc[t] \in {"acquire", "begin", "release"} THEN cur[t].pool
    ELSE IF pc'[t] \in {"acquire", "begin"} THEN cur'[t].pool
    ELSE Last(ctl[t]).rpool

\* C11: a step of a scope on one pool changes the frame of no other pool; and
\* every open block of a task has a connection of its own pool, leased to the
\* task, which is the connection of the frame of that pool.
C11_OtherFramesUnchanged ==
    \A t \in Tasks : \A p \in Pools :
        fmaps'[t].entries[p] # fmaps[t].entries[p] => p = StepPool(t)

C11_LeaseOfOwnPool ==
    \A t \in Tasks : \A i \in 1..Len(ctl[t]) :
        /\ ctl[t][i].conn[1] = ctl[t][i].rpool
        /\ holder[ctl[t][i].conn] = t
        /\ StillOpen(t, i) => FrameOf(t, ctl[t][i].rpool).conn = ctl[t][i].conn

C11_CrossPoolScopesIndependent ==
    [](C11_LeaseOfOwnPool) /\ [][C11_OtherFramesUnchanged]_vars

\* inside a scope on pA, task 1 has entered and left a scope on pB and entered
\* another: the frame of pA has its one transaction, the frame of pB a
\* connection of pB
C11_Witness ==
    /\ Len(ctl[1]) = 2
    /\ ctl[1][1].rpool = "pA"
    /\ ctl[1][2].rpool = "pB"
    /\ ctl[1][1].conn = <<"pA", 1>>
    /\ ctl[1][2].conn = <<"pB", 1>>
    /\ Len(FrameOf(1, "pA").transactions) = 1
    /\ Len(FrameOf(1, "pB").transactions) = 1
    /\ pc[1] = "body"

\* ------------------------------------------------------------- C12
AllTables == {Table} \cup {using(Table, x) : x \in Pools \cup Conns}

\* the statement has updated row k on connection c and on no other
UpdatedOn(c, k) ==
    /\ \A c2 \in Conns \ {c} : xacts'[c2] = xacts[c2]
    /\ IF Depth(c) > 0
       THEN xacts'[c][Depth(c)].w[k] # NoWrite /\ committed' = committed
       ELSE xacts'[c] = xacts[c]

\* C12: a step of Action.run on a table runs the statement on the table's
\* pinned connection if it has one, else on the connection of the task's frame
\* for the table's pool if there is one, in both cases leasing nothing; else
\* it leases an idle connection of that pool, which the end of the statement,
\* by return or by exception, gives back; and no step of a statement changes
\* a frame.
C12_Step ==
    \A t \in Tasks :
        /\ \A table \in AllTables : \A k \in Keys :
              Action_run(t, table, k)
              => \A p \in Pools : \A target \in Conns \cup {NoConn} :
                    /\ p = (IF table.pool = NoPool THEN pools_default ELSE table.pool)
                    /\ target = (IF table.conn # NoConn THEN table.conn
                                 ELSE FrameOf(t, p).conn)
                    => IF target # NoConn
                       THEN /\ holder' = holder
                            /\ pc'[t] = "body"
                            /\ UpdatedOn(target, k)
                       ELSE /\ pc'[t] = "stmt"
                            /\ xacts' = xacts
                            /\ committed' = committed
                            /\ \E c \in Conns :
                                  /\ c[1] = p
                                  /\ holder[c] = 0
                                  /\ holder' = [holder EXCEPT ![c] = t]
        /\ pc[t] = "stmt" /\ pc'[t] # "stmt"
           => \E c \in Conns : holder[c] = t /\ holder' = [holder EXCEPT ![c] = 0]
        /\ (pc[t] = "stmt" /\ pc'[t] # "stmt")
              \/ (\E table \in AllTables : \E k \in Keys : Action_run(t, table, k))
           => \A u \in Tasks : \A p \in Pools :
                 fmaps'[u].entries[p] = fmaps[u].entries[p]

C12_RunRouting == [][C12_Step]_vars

\* inside its scope on pB, in which it has updated a row, task 1 runs a
\* statement on a table of pA and has leased a connection for it
C12_Witness ==
    /\ Len(ctl[1]) = 1
    /\ ctl[1][1].rpool = "pB"
    /\ hist[1][1].wrote
    /\ pc[1] = "stmt"
    /\ stmt[1] = [conn |-> <<"pA", 1>>, leased |-> TRUE]
    /\ holder[<<"pA", 1>>] = 1

\* ------------------------------------------------------------- C13
\* C13: while get_iter iterates over the cursor, the connection the cursor
\* was made on is held by the task.
C13_CursorConnectionHeld ==
    \A t \in Tasks : pc[t] = "iter" => holder[stmt[t].conn] = t

\* ------------------------------------------------------------- C14
\* Select(query, f, fu).get_one() on a query without a limit sends what it
\* sends for query.limit(1), once, and the query keeps no limit
C14_Step ==
    \A f \in FieldLists : \A fu \in ForUpdates :
        Select_get_one(f, fu) /\ query.limiting = None
        => /\ sent' = get_one(Select(limit(query, raw("1")), f, fu))
           /\ Len(sent') = 1
           /\ query'.limiting = None

\* C14: for a Query with no limit set, get_one sends exactly the statement
\* text and parameter list it sends for the same Query with limit(1), with
\* the same fields and for-update mode, exactly once, and the Query's own
\* limit stays unset.
C14_GetOneAddsLimitOne == [][C14_Step]_vars

\* a filtered query without a limit was read for update: one statement went
\* out, with LIMIT 1 before FOR UPDATE
C14_Witness ==
    /\ query.limiting = None
    /\ query.expr = Node("and", "", <<safe("p"), safe("q")>>)
    /\ Len(sent) = 1
    /\ \E i \in 1..Len(sent[1].text) :
        SubSeq(sent[1].text, i, i + 3) = <<"LIMIT", "1", "\n", "FOR UPDATE">>

\* ------------------------------------------------------------- C15
\* the literals of e, left to right and depth first: the value nodes, the
\* Python values given as operands, the elements of the in / not in lists
RECURSIVE Literals(_)
RECURSIVE LiteralsOfKids(_, _)
Literals(e) ==
    IF e.op \in {"value", "raw"} THEN <<e.val>>
    ELSE IF e.op \in {"=", "<>"} /\ e.kids[2] = None THEN Literals(e.kids[1])
    ELSE LiteralsOfKids(e.kids, 1)

LiteralsOfKids(ks, i) ==
    IF i > Len(ks) THEN <<>> ELSE Literals(ks[i]) \o LiteralsOfKids(ks, i + 1)

IsPlaceholder(tok) == \E i \in 1..9 : tok = "$" \o ToString(i)

\* C15: the parameters of a compiled Expr are its literals in left-to-right
\* depth-first order, the placeholders of the text read $1, $2, ..., $n from
\* left to right with n the number of parameters, and compiling the Expr
\* again with a fresh list gives the same text and parameters.
C15_OnePlaceholderPerLiteral ==
    sql # NoSql
    => /\ sql.params = Literals(expr)
       /\ SelectSeq(sql.text, IsPlaceholder)
            = [i \in 1..Len(sql.params) |-> "$" \o ToString(i)]
       /\ get_sql_str(expr, <<>>) = sql

\* value(1)._in(1, 2) == 2 is compiled: three literals, an element of a list
\* among them
C15_Witness ==
    /\ expr = Node("=", "", <<Node("in", "", <<value("1"), raw("1"), raw("2")>>), raw("2")>>)
    /\ sql.params = <<"1", "1", "2", "2">>

\* ------------------------------------------------------------- C16
\* the names of the safe fragments used as predicates
AtomNames == {"p", "q", "r"}

\* the truth of a condition tree of and, or, not over the atoms, under v
RECURSIVE Eval(_, _)
Eval(e, v) ==
    IF e.op = "and" THEN Eval(e.kids[1], v) /\ Eval(e.kids[2], v)
    ELSE IF e.op = "or" THEN Eval(e.kids[1], v) \/ Eval(e.kids[2], v)
    ELSE IF e.op = "not" THEN ~Eval(e.kids[1], v)
    ELSE v[e.val]

\* the truth of a condition text as SQL reads it from token i on, and the
\* token after what was read: not binds tighter than and, and tighter than
\* or, parentheses group
RECURSIVE ReadOr(_, _, _)
RECURSIVE ReadOrTail(_, _, _)
RECURSIVE ReadAnd(_, _, _)
RECURSIVE ReadAndTail(_, _, _)
RECURSIVE ReadNot(_, _, _)
ReadPrimary(toks, i, v) ==
    IF toks[i] = "("
    THEN LET r == ReadOr(toks, i + 1, v) IN [val |-> r.val, pos |-> r.pos + 1]
    ELSE [val |-> v[toks[i]], pos |-> i + 1]

ReadNot(toks, i, v) ==
    IF toks[i] = "not"
    THEN LET r == ReadNot(toks, i + 1, v) IN [val |-> ~r.val, pos |-> r.pos]
    ELSE ReadPrimary(toks, i, v)

ReadAndTail(toks, acc, v) ==
    IF acc.pos <= Len(toks) /\ toks[acc.pos] = "and"
    THEN LET r == ReadNot(toks, acc.pos + 1, v)
         IN ReadAndTail(toks, [val |-> acc.val /\ r.val, pos |-> r.pos], v)
    ELSE acc

ReadAnd(toks, i, v) == ReadAndTail(toks, ReadNot(toks, i, v), v)

ReadOrTail(toks, acc, v) ==
    IF acc.pos <= Len(toks) /\ toks[acc.pos] = "or"
    THEN LET r == ReadAnd(toks, acc.pos + 1, v)
         IN ReadOrTail(toks, [val |-> acc.val \/ r.val, pos |-> r.pos], v)
    ELSE acc

ReadOr(toks, i, v) == ReadOrTail(toks, ReadAnd(toks, i, v), v)

Meaning(toks, v) == ReadOr(toks, 1, v).val

\* C16: the rendered condition, read under SQL operator precedence, groups
\* its operands as the expression tree does: whatever the truth of the
\* predicates, the text of a filter built with filter, orFilter, exclude, &
\* and | is true exactly when the tree is.
C16_TextGroupsAsTree ==
    sql # NoSql /\ query.expr # None
    => \A v \in [AtomNames -> BOOLEAN] : Meaning(sql.text, v) = Eval(query.expr, v)

\* ------------------------------------------------------------- C17
\* + - * / like ilike
BinaryLike == {"+", "-", "*", "/", "like", "ilike"}

\* the text, in parentheses when wanted
Wrapped(text, wanted) == IF wanted THEN <<"(">> \o text \o <<")">> ELSE text

\* e has two operands and is no comparison with None
IsBinaryNode(e) ==
    /\ e.op \in BinOps \cup {"like"}
    /\ Len(e.kids) = 2
    /\ e.kids[2] # None

\* C17: the text of a binary node is the text of its left operand, the
\* operator and the text of its right operand, an operand being in
\* parentheses exactly when the node's operator and the operand's own
\* operator are both binary-like.
C17_ParenthesesOfBinaryNodes ==
    sql # NoSql /\ IsBinaryNode(expr)
    => LET l == get_sql_str(expr.kids[1], <<>>)
           r == get_sql_str(parse(expr.kids[2]), l.params)
       IN sql.text =
            Wrapped(l.text, expr.op \in BinaryLike /\ expr.kids[1].op \in BinaryLike)
            \o <<expr.op>>
            \o Wrapped(r.text, expr.op \in BinaryLike /\ expr.kids[2].op \in BinaryLike)

\* (c + a) * 2 is compiled
C17_Witness ==
    /\ expr = Node("*", "", <<Node("+", "", <<field("c"), field("a")>>), raw("2")>>)
    /\ sql.text = <<"(", "\"c\"", "+", "\"a\"", ")", "*", "$1">>

\* ------------------------------------------------------------- C18
\* field('a') + field('b') * field('c')
APlusBTimesC ==
    Node("+", "", <<field("a"), Node("*", "", <<field("b"), field("c")>>)>>)

\* C18: field('a') + field('b') * field('c') renders "a" + "b" * "c", with no
\* parentheses.
C18_NoParentheses ==
    sql # NoSql /\ expr = APlusBTimesC
    => sql.text = <<"\"a\"", "+", "\"b\"", "*", "\"c\"">>

\* C18 as amended: field('a') + field('b') * field('c') renders
\* "a" + ("b" * "c"), the multiplication in parentheses.
C18_MultiplicationInParentheses ==
    sql # NoSql /\ expr = APlusBTimesC
    => sql.text = <<"\"a\"", "+", "(", "\"b\"", "*", "\"c\"", ")">>

C18_Witness == sql # NoSql /\ expr = APlusBTimesC

\* ------------------------------------------------------------- C19
\* C19: a unary node renders its operand in parentheses: -(...) for neg and
\* not (...) for not.
C19_UnaryInParentheses ==
    sql # NoSql /\ expr.op \in {"neg", "not"}
    => sql.text = <<IF expr.op = "neg" THEN "-" ELSE "not">>
                    \o <<"(">> \o get_sql_str(expr.kids[1], <<>>).text \o <<")">>

\* ------------------------------------------------------------- C20
\* the comparisons with None in e
RECURSIVE NoneComparisons(_)
RECURSIVE NoneComparisonsOfKids(_, _)
NoneComparisons(e) ==
    IF e.op \in {"=", "<>"} /\ e.kids[2] = None THEN 1 + NoneComparisons(e.kids[1])
    ELSE NoneComparisonsOfKids(e.kids, 1)

NoneComparisonsOfKids(ks, i) ==
    IF i > Len(ks) THEN 0
    ELSE NoneComparisons(ks[i]) + NoneComparisonsOfKids(ks, i + 1)

IsToken(tok) == tok = "is"

\* C20: a comparison of an Expr with None renders as the Expr, in parentheses
\* when it is binary-like, followed by is null (=) or is not null (<>), and
\* adds no parameter; and a compiled text has one `is` for every comparison
\* with None in the Expr, and no placeholder for any.
C20_NoneIsNull ==
    sql # NoSql
    => /\ Len(SelectSeq(sql.text, IsToken)) = NoneComparisons(expr)
       /\ Len(SelectSeq(sql.text, IsPlaceholder)) = Len(Literals(expr))
       /\ expr.op \in {"=", "<>"} /\ expr.kids[2] = None
          => LET l == get_sql_str(expr.kids[1], <<>>)
             IN /\ sql.params = l.params
                /\ sql.text = Wrapped(l.text, expr.kids[1].op \in BinaryLike)
                                \o (IF expr.op = "=" THEN <<"is", "null">>
                                    ELSE <<"is", "not", "null">>)

\* (c + a) != None is compiled
C20_Witness ==
    /\ expr = Node("<>", "", <<Node("+", "", <<field("c"), field("a")>>), None>>)
    /\ sql.text = <<"(", "\"c\"", "+", "\"a\"", ")", "is", "not", "null">>
    /\ sql.params = <<>>

\* ------------------------------------------------------------- C21
\* the operand reached from e by going n times to the left operand
RECURSIVE Descend(_, _)
Descend(e, n) == IF n = 0 \/ e.kids = <<>> THEN e ELSE Descend(e.kids[1], n - 1)

\* e is start ANDed with the predicates of qs, one after the other; with no
\* start it is the first predicate ANDed with the others, and None if there
\* is no predicate either
IsConjunction(e, start, qs) ==
    LET n == Len(qs)
    IN IF start # None
       THEN /\ Descend(e, n) = start
            /\ \A j \in 1..n :
                  Descend(e, n - j).op = "and" /\ Descend(e, n - j).kids[2] = qs[j]
       ELSE IF n = 0 THEN e = None
       ELSE /\ Descend(e, n - 1) = qs[1]
            /\ \A j \in 2..n :
                  Descend(e, n - j).op = "and" /\ Descend(e, n - j).kids[2] = qs[j]

\* the predicates of a condition: its operands under and, or, not, left to
\* right
RECURSIVE Atoms(_)
Atoms(e) ==
    IF e = None THEN <<>>
    ELSE IF e.op \in {"and", "or"} THEN Atoms(e.kids[1]) \o Atoms(e.kids[2])
    ELSE IF e.op = "not" THEN Atoms(e.kids[1])
    ELSE <<e>>

RECURSIVE AtomsOfAll(_, _)
AtomsOfAll(qs, i) == IF i > Len(qs) THEN <<>> ELSE Atoms(qs[i]) \o AtomsOfAll(qs, i + 1)

\* the or-nodes of a condition
RECURSIVE Ors(_)
Ors(e) ==
    IF e.op \in {"and", "or"}
    THEN (IF e.op = "or" THEN 1 ELSE 0) + Ors(e.kids[1]) + Ors(e.kids[2])
    ELSE IF e.op = "not" THEN Ors(e.kids[1])
    ELSE 0

RECURSIVE OrsOfAll(_, _)
OrsOfAll(qs, i) == IF i > Len(qs) THEN 0 ELSE Ors(qs[i]) + OrsOfAll(qs, i + 1)

C21_Step ==
    \A i \in 1..Len(queries) : \A args \in ArgLists : \A kw \in KwLists :
        /\ Call_filter(i, args, kw)
           => /\ IsConjunction(queries'[Len(queries) + 1].expr, queries[i].expr,
                               predicates(args, kw))
              /\ Atoms(queries'[Len(queries) + 1].expr)
                    = Atoms(queries[i].expr) \o AtomsOfAll(predicates(args, kw), 1)
              /\ Ors(queries'[Len(queries) + 1].expr)
                    = Ors(queries[i].expr) + OrsOfAll(predicates(args, kw), 1)
        /\ Call_orFilter(i, args, kw) /\ predicates(args, kw) # <<>>
           => /\ IF queries[i].expr # None
                 THEN /\ queries'[Len(queries) + 1].expr.op = "or"
                      /\ queries'[Len(queries) + 1].expr.kids[1] = queries[i].expr
                      /\ IsConjunction(queries'[Len(queries) + 1].expr.kids[2], None,
                                       predicates(args, kw))
                      /\ Ors(queries'[Len(queries) + 1].expr)
                            = Ors(queries[i].expr) + OrsOfAll(predicates(args, kw), 1) + 1
                 ELSE /\ IsConjunction(queries'[Len(queries) + 1].expr, None,
                                       predicates(args, kw))
                      /\ Ors(queries'[Len(queries) + 1].expr)
                            = OrsOfAll(predicates(args, kw), 1)
              /\ Atoms(queries'[Len(queries) + 1].expr)
                    = Atoms(queries[i].expr) \o AtomsOfAll(predicates(args, kw), 1)
              /\ \A j \in 1..Len(Atoms(queries'[Len(queries) + 1].expr)) :
                    Atoms(queries'[Len(queries) + 1].expr)[j] # value("True")

\* C21: filter returns a Query whose filter is the receiver's ANDed with
\* every predicate and keyword equality in argument order; orFilter, given
\* predicates, returns the receiver's filter ORed with their conjunction, and
\* just the conjunction when the receiver has no filter; each predicate
\* passed appears once in the result, after those of the receiver, and no OR
\* with a constant true is introduced.
C21_FilterAndOrFilter == [][C21_Step]_vars

\* a Query without a filter was given p | q, and orFilter(p) was called on
\* the Query so filtered
C21_Witness ==
    /\ Len(queries) = 3
    /\ queries[2].expr = Node("or", "", <<safe("p"), safe("q")>>)
    /\ queries[3].expr = Node("or", "", <<queries[2].expr, safe("p")>>)

\* ------------------------------------------------------------- C22
C22_Step ==
    \A args \in ArgLists : \A kw \in KwLists :
        /\ predicates(args, kw) = <<>>
           => /\ Table_exclude(args, kw) => err' = AssertionError /\ queries' = queries
              /\ \A i \in 1..Len(queries) :
                    Call_exclude(i, args, kw) => err' = AssertionError /\ queries' = queries
        /\ predicates(args, kw) # <<>>
           => /\ Table_exclude(args, kw)
                 => /\ err' = NoExc
                    /\ queries'[Len(queries) + 1].expr.op = "not"
                    /\ IsConjunction(queries'[Len(queries) + 1].expr.kids[1], None,
                                     predicates(args, kw))
              /\ \A i \in 1..Len(queries) :
                    Call_exclude(i, args, kw)
                    => /\ err' = NoExc
                       /\ IF queries[i].expr = None
                          THEN /\ queries'[Len(queries) + 1].expr.op = "not"
                               /\ IsConjunction(queries'[Len(queries) + 1].expr.kids[1],
                                                None, predicates(args, kw))
                          ELSE /\ queries'[Len(queries) + 1].expr.op = "and"
                               /\ queries'[Len(queries) + 1].expr.kids[1] = queries[i].expr
                               /\ queries'[Len(queries) + 1].expr.kids[2].op = "not"
                               /\ IsConjunction(
                                    queries'[Len(queries) + 1].expr.kids[2].kids[1],
                                    None, predicates(args, kw))

\* C22: exclude with no predicate and no keyword equality fails at the call,
\* on a Query with or without a filter and on a Table, and returns no Query;
\* with a predicate it ANDs not(their conjunction) onto the receiver's filter.
C22_ExcludeNeedsPredicate == [][C22_Step]_vars

\* exclude() has failed on a Query that has a filter and came from exclude(p, q)
C22_Witness ==
    /\ err = AssertionError
    /\ Len(queries) = 2
    /\ queries[2].expr = Node("not", "", <<Node("and", "", <<safe("p"), safe("q")>>)>>)

\* ------------------------------------------------------------- C23
\* INSERT INTO t() ...: an insert that names no field
IsEmptyInsert(text) ==
    /\ Len(text) >= 4
    /\ text[1] = "INSERT INTO"
    /\ text[3] = "("
    /\ text[4] = ")"

\* C23: an Insert with no field fails before any SQL text is produced or
\* sent, through Table.insert() and through Insert(table, {}): no statement
\* INSERT INTO t() VALUES () is ever rendered.
C23_NoEmptyInsert ==
    /\ ~IsEmptyInsert(sql.text)
    /\ \A i \in 1..Len(sent) : ~IsEmptyInsert(sent[i].text)

\* ------------------------------------------------------------- C24
\* the step is a failure of task 1 that sends nothing and leases nothing
FailsClean ==
    /\ pc'[1] = "raising"
    /\ exc'[1] \in {AssertionError, AttributeError}
    /\ sent' = sent
    /\ holder' = holder
    /\ stmt' = stmt
    /\ xacts' = xacts
    /\ committed' = committed

C24_Step ==
    \A k \in Keys :
        /\ \A kw \in KwLists :
              /\ Query_update(1, kw, k) /\ (query.table.joins # <<>> \/ query.expr = None)
                 => FailsClean
              /\ Table_update(1, kw, k) => FailsClean
        /\ Query_delete(1, k) /\ query.table.joins # <<>> => FailsClean
        /\ Table_delete(1, k) /\ query.table.joins # <<>> => FailsClean

\* C24: an Update fails, with no statement sent and no connection leased,
\* whenever the Table of its Query has joins or its Query has no filter,
\* Table.update(...) called directly included; a Delete fails the same way
\* when the Table has joins.
C24_UpdateDeleteFail == [][C24_Step]_vars

\* the update of a filtered Query on a joined table has failed on the assert,
\* and nothing was sent or leased
C24_Witness ==
    /\ pc[1] = "raising"
    /\ exc[1] = AssertionError
    /\ query.table.joins # <<>>
    /\ query.expr = safe("p")
    /\ sent = <<>>
    /\ \A c \in Conns : holder[c] = 0

\* ------------------------------------------------------------- C25
\* table, expr, offset_num, limiting, ordering, grouping
QueryFields == DOMAIN Query(Table)

\* the Queries made before the step are as they were
QueriesKept == SubSeq(queries', 1, Len(queries)) = queries

\* the Query the step has made differs from queries[i] in field name at most
OnlySets(i, name) ==
    /\ Len(queries') = Len(queries) + 1
    /\ \A g \in QueryFields \ {name} : queries'[Len(queries) + 1][g] = queries[i][g]
    /\ QueriesKept

C25_Step ==
    /\ QueriesKept
    /\ \A i \in 1..Len(queries) :
        /\ \A args \in ArgLists : \A kw \in KwLists :
              /\ Call_filter(i, args, kw) => OnlySets(i, "expr")
              /\ Call_orFilter(i, args, kw) => OnlySets(i, "expr")
              /\ Call_exclude(i, args, kw) /\ predicates(args, kw) # <<>>
                 => OnlySets(i, "expr")
        /\ \A n \in Offsets :
              Call_offset(i, n)
              => OnlySets(i, "offset_num") /\ queries'[Len(queries) + 1].offset_num = n
        /\ \A n \in Limits :
              Call_limit(i, n)
              => OnlySets(i, "limiting") /\ queries'[Len(queries) + 1].limiting = n
        /\ \A names \in NameLists \ {<<>>} :
              /\ Call_order_by(i, names)
                 => OnlySets(i, "ordering") /\ queries'[Len(queries) + 1].ordering = names
              /\ Call_group_by(i, names)
                 => OnlySets(i, "grouping") /\ queries'[Len(queries) + 1].grouping = names

\* C25: every mutator of Query returns a new Query that differs from the
\* receiver in the one field it sets and in no other, and the receiver and
\* every Query made before are as they were.
C25_MutatorsCopy == [][C25_Step]_vars

\* a filtered Query was given a limit, and the filtered Query is still there
\* without one
C25_Witness ==
    /\ Len(queries) = 3
    /\ queries[2].expr = safe("p")
    /\ queries[2].limiting = None
    /\ queries[3] = [queries[2] EXCEPT !.limiting = raw("1")]

\* ------------------------------------------------------------- C28
\* a step in which __aexit__ of task t has looked up its frame and popped, or
\* failed to pop, a transaction
C28_Step ==
    \A t \in Tasks :
        CanExit(t) /\ pc'[t] = "release"
        => /\ cur'[t].pool = Last(ctl[t]).rpool
           /\ cur'[t].popped

\* C28: the exit of a scope works on the frame its entry pushed to, and ends
\* the transaction the entry began, also when the scope was made without a
\* pool and the pool registered as 'default' was replaced in between.
C28_ExitOnEntryFrame == [][C28_Step]_vars

\* ------------------------------------------------------------- C30
\* the Tables made before the step are as they were
TablesKept == SubSeq(tables', 1, Len(tables)) = tables

C30_Step ==
    \A i \in 1..Len(tables) :
        /\ \A join_type \in JoinTypes :
              Table_join(i, join_type)
              => /\ tables'[Len(tables) + 1].name = tables[i].name
                 /\ tables'[Len(tables) + 1].joins
                      = tables[i].joins \o <<Join("profile", "id", "uid", join_type)>>
                 /\ tables'[Len(tables) + 1].conn = NoConn
                 /\ tables'[Len(tables) + 1].pool = NoPool
                 /\ ~pinned(tables'[Len(tables) + 1])
                 /\ get_pool(tables'[Len(tables) + 1].pool) = pools_default
                 /\ TablesKept
        /\ \A x \in Pinnables :
              Table_using(i, x)
              => /\ tables'[Len(tables) + 1].name = tables[i].name
                 /\ tables'[Len(tables) + 1].joins = tables[i].joins
                 /\ (tables'[Len(tables) + 1].conn = x /\ tables'[Len(tables) + 1].pool = NoPool)
                      \/ (tables'[Len(tables) + 1].pool = x
                            /\ tables'[Len(tables) + 1].conn = NoConn)
                 /\ TablesKept

Blocked(t) ==
    /\ pc[t] = "acquire"
    /\ \A c \in Conns : ~IsNextFree(c, cur[t].pool)

C27_NoTaskWaitsForever ==
    \A t \in Tasks :
        Blocked(t) => \E u \in Tasks \ {t} : pc[u] \notin {"done", "unborn"} /\ ~Blocked(u)

\* C26: with no pool registered under 'default', every operation that needs
\* the default pool (get_default_pool(), running a statement on a table with
\* nothing pinned, entering local_transaction() with no pool) raises at that
\* call, and no pool comes to be registered
C26_Step ==
    /\ \A t \in Tasks :
            /\ pools_default = NoPool
            /\ \/ get_default_pool(t)
               \/ \E caller \in Callers, cfg \in BOOLEAN : find_pool_miss(t, caller, cfg)
            => pc'[t] = "raising" /\ exc'[t] \in {KeyError, Exception}
    /\ pools_default = NoPool => pools_default' = NoPool

C26_RaisesWithoutDefault == [][C26_Step]_vars

\* C29: find_pool(name) creates and registers at most one pool for a name:
\* a call that returns from the creation finds no pool registered under the
\* name meanwhile, so that every call returns the registered handle and the
\* entry is never overwritten by a second pool
C29_Step ==
    /\ \A t \in Tasks :
            find_pool_enter(t) \/ find_pool_run(t)
            => pools_default = NoPool
    /\ pools_default # NoPool => pools_default' = pools_default

C29_OnePoolPerName == [][C29_Step]_vars

====
